---- MODULE Spec2Model ----
(***************************************************************************)
(* PhotoSquare: the filter engine AdvancedFilterProcessor                  *)
(* (utils/advancedFilters.ts, kept as src/unnamed/part_000).               *)
(*                                                                         *)
(* A processor wraps one canvas.  The constructor captures the canvas      *)
(* pixels twice: imageData.data (the working buffer, a Uint8ClampedArray)  *)
(* and originalData (a copy).  applyAdvancedFilters resets the working     *)
(* buffer, runs the eight preset looks, the basic tonal stage and the      *)
(* three spatial effects over it and puts the result on the canvas.        *)
(*                                                                         *)
(* JavaScript numbers are modelled as exact rationals <<n, d>> (d > 0, in  *)
(* lowest terms) plus NaN; a byte store goes through the Uint8ClampedArray *)
(* conversion (NaN -> 0, clamp to 0..255, round half to even).  Math.sqrt  *)
(* and Math.pow results are never materialised: the byte they lead to is   *)
(* found by exact comparison of squares / integer powers.  A double can    *)
(* differ from the exact value only by its rounding: the stored byte is    *)
(* the same except where the exact value is a tie n + 1/2 that the         *)
(* rounded Math.sqrt misses (pinhole and lomo on some pixels of canvases   *)
(* with an even side).                                                     *)
(*                                                                         *)
(* createFormattedImage (utils/imageProcessor.ts) sizes the canvas for a   *)
(* format preset and places the image on it before the processor runs.     *)
(* Its few divisions and products are modelled in doubles proper, rounding *)
(* included (section Doubles).                                             *)
(*                                                                         *)
(* App (App.tsx) holds the image list, the global filters and the format   *)
(* options; a SquareFormatter card per image and MobilePhotoEditor are     *)
(* mounted on the same list and render each image with createFormattedImage*)
(* after loading its file.  A rendering is named by its arguments; the     *)
(* runs whose load is pending are kept in inflight.                        *)
(***************************************************************************)
EXTENDS Integers, Sequences, FiniteSets, TLC

VARIABLES width, height, canvasPixels, originalData, data, filters, pc, calls, formatted,
          images, globalFilters, formatOptions, cards, mobile, inflight, nextId, lastOp

\* The state of App and of the components mounted on it.
appVars == <<images, globalFilters, formatOptions, cards, mobile, inflight, nextId, lastOp>>

\* The state of one AdvancedFilterProcessor and of createFormattedImage.
engineVars == <<width, height, canvasPixels, originalData, data, filters, pc, calls, formatted>>

vars == <<engineVars, appVars>>

(***************************************************************************)
(* Numbers                                                                 *)
(***************************************************************************)

\* NaN: what arithmetic on an absent (undefined) field yields.
NaN == <<0, 0>>

IsNaN(x) == x[2] = 0

IAbs(n) == IF n < 0 THEN -n ELSE n

RECURSIVE GCD(_, _)
GCD(a, b) == IF b = 0 THEN a ELSE GCD(b, a % b)

\* The rational n/d in lowest terms with a positive denominator (d # 0).
Norm(n, d) ==
    LET g == GCD(IAbs(n), IAbs(d))
        s == IF d < 0 THEN -1 ELSE 1
    IN  <<(s * n) \div g, (s * d) \div g>>

Rat(n) == <<n, 1>>

Frac(n, d) == Norm(n, d)

Add(x, y) ==
    IF IsNaN(x) \/ IsNaN(y) THEN NaN
    ELSE LET g == GCD(x[2], y[2])
         IN  Norm(x[1] * (y[2] \div g) + y[1] * (x[2] \div g), (x[2] \div g) * y[2])

Neg(x) == IF IsNaN(x) THEN NaN ELSE <<-x[1], x[2]>>

Sub(x, y) == Add(x, Neg(y))

Mul(x, y) ==
    IF IsNaN(x) \/ IsNaN(y) THEN NaN
    ELSE LET g1 == GCD(IAbs(x[1]), y[2])
             g2 == GCD(IAbs(y[1]), x[2])
         IN  <<(x[1] \div g1) * (y[1] \div g2), (x[2] \div g2) * (y[2] \div g1)>>

\* x / y for a non-zero divisor (every divisor of the engine is non-zero on
\* the documented parameter ranges; a zero divisor here has no value).
Div(x, y) ==
    IF IsNaN(x) \/ IsNaN(y) THEN NaN
    ELSE Mul(x, Norm(y[2], (CHOOSE n \in {y[1]} : n # 0)))

\* a/b <= c/d for b, d > 0, on the continued fractions (no product is formed).
RECURSIVE FracLe(_, _, _, _)
FracLe(a, b, c, d) ==
    LET qa == a \div b
        qc == c \div d
        ra == a - qa * b
        rc == c - qc * d
    IN  IF qa # qc THEN qa < qc
        ELSE IF ra = 0 THEN TRUE
        ELSE IF rc = 0 THEN FALSE
        ELSE FracLe(d, rc, b, ra)

\* Comparisons are false as soon as one side is NaN, as in JavaScript.
Le(x, y) == ~IsNaN(x) /\ ~IsNaN(y) /\ FracLe(x[1], x[2], y[1], y[2])

Lt(x, y) == ~IsNaN(x) /\ ~IsNaN(y) /\ ~FracLe(y[1], y[2], x[1], x[2])

Gt(x, y) == Lt(y, x)

\* a === b on numbers: NaN equals nothing.
StrictEq(x, y) == ~IsNaN(x) /\ ~IsNaN(y) /\ x = y

\* a !== b
StrictNe(x, y) == ~StrictEq(x, y)

\* Math.max / Math.min: NaN if any argument is NaN.
MathMax(x, y) == IF IsNaN(x) \/ IsNaN(y) THEN NaN ELSE IF Lt(x, y) THEN y ELSE x

MathMin(x, y) == IF IsNaN(x) \/ IsNaN(y) THEN NaN ELSE IF Lt(y, x) THEN y ELSE x

MathAbs(x) == IF IsNaN(x) THEN NaN ELSE <<IAbs(x[1]), x[2]>>

\* Integer part of a rational, rounded toward zero.
Trunc(x) == IF x[1] >= 0 THEN x[1] \div x[2] ELSE -((-x[1]) \div x[2])

\* The JavaScript remainder x % m: the sign of the dividend, x - m * trunc(x / m).
JsMod(x, m) ==
    IF IsNaN(x) \/ IsNaN(m) THEN NaN
    ELSE Sub(x, Mul(m, Rat(Trunc(Div(x, m)))))

\* Mutant: the store of an Int8Array (truncate, wrap into -128..127).
ToInt8Wrap(x) ==
    IF IsNaN(x) THEN 0
    ELSE (((IF x[1] >= 0 THEN x[1] \div x[2] ELSE -((-x[1]) \div x[2])) + 128) % 256) - 128

\* The byte a Uint8ClampedArray stores for x: NaN -> 0, clamp, round half to even.
ToUint8Clamp(x) ==
    IF IsNaN(x) THEN 0
    ELSE IF x[1] <= 0 THEN 0
    ELSE IF x[1] \div x[2] >= 255 THEN 255
    ELSE LET f == x[1] \div x[2]
             above == x[1] - f * x[2]
             below == x[2] - above
         IN  IF above < below THEN f
             ELSE IF above > below THEN f + 1
             ELSE IF f % 2 = 0 THEN f ELSE f + 1

\* Math.max(0, Math.min(255, x)), the explicit clamp of the engine.
Clamp(x) == MathMax(Rat(0), MathMin(Rat(255), x))

x ++ y == Add(x, y)
x -- y == Sub(x, y)
x ** y == Mul(x, y)
x // y == Div(x, y)

RECURSIVE IPow(_, _)
IPow(b, e) == IF e = 0 THEN 1 ELSE b * IPow(b, e - 1)

\* a - t >= b * sqrt(q) for L = a - t and q >= 0, decided on the square of L / b.
GeSqrt(L, b, q) ==
    IF b[1] = 0 THEN L[1] >= 0
    ELSE LET X == L // b
         IN  IF b[1] > 0 THEN X[1] >= 0 /\ Le(q, X ** X)
             ELSE X[1] <= 0 \/ Le(X ** X, q)

\* a - t = b * sqrt(q)
EqSqrt(L, b, q) ==
    IF b[1] = 0 THEN L[1] = 0
    ELSE LET X == L // b
         IN  X[1] >= 0 /\ (X ** X) = q

\* The largest n in lo..hi with a - b * sqrt(q) >= n - 1/2 (lo if there is none).
RECURSIVE SqrtSearch(_, _, _, _, _)
SqrtSearch(a, b, q, lo, hi) ==
    IF lo = hi THEN lo
    ELSE LET mid == (lo + hi + 1) \div 2
         IN  IF GeSqrt(a -- Frac(2 * mid - 1, 2), b, q)
             THEN SqrtSearch(a, b, q, mid, hi)
             ELSE SqrtSearch(a, b, q, lo, mid - 1)

\* The byte a Uint8ClampedArray stores for the real number a - b * Math.sqrt(q).
\* n, or the even neighbour n - 1 when a - b * sqrt(q) is exactly n - 1/2 and
\* n is odd (round half to even).
SqrtTie(n, a, b, q) ==
    IF n > 0 /\ n % 2 = 1 /\ EqSqrt(a -- Frac(2 * n - 1, 2), b, q) THEN n - 1 ELSE n

SqrtByte(a, b, q) == SqrtTie(SqrtSearch(a, b, q, 0, 255), a, b, q)

\* 255 * Math.pow(c / 255, e) >= n - 1/2 for the exponent e = en/ed >= 1 and
\* a byte c, decided on integer powers.
GePow(c, e, n) ==
    IPow(c, e[1]) * IPow(2, e[2]) >= IPow(2 * n - 1, e[2]) * IPow(255, e[1] - e[2])

RECURSIVE PowSearch(_, _, _, _)
PowSearch(c, e, lo, hi) ==
    IF lo = hi THEN lo
    ELSE LET mid == (lo + hi + 1) \div 2
         IN  IF GePow(c, e, mid) THEN PowSearch(c, e, mid, hi)
             ELSE PowSearch(c, e, lo, mid - 1)

\* The byte stored for Math.pow(c / 255, e) * 255 (no tie is possible: one
\* side of GePow's comparison is even and the other odd).
PowByte(c, e) == IF c = 0 THEN 0 ELSE PowSearch(c, e, 0, 255)

(***************************************************************************)
(* Filter parameter sets                                                   *)
(***************************************************************************)

PresetNames ==
    <<"vintage", "drama", "lomo", "cross", "pinhole", "kodachrome", "technicolor", "polaroid">>

FieldNames ==
    {"grayscale", "sepia", "brightness", "contrast", "saturation", "hue", "blur",
     "sharpen", "vignette", "temperature", "vintage", "drama", "clarify", "hdr",
     "lomo", "cross", "pinhole", "kodachrome", "technicolor", "polaroid"}

defaultFilters ==
    [n \in FieldNames |->
        IF n \in {"brightness", "contrast", "saturation"} THEN 100 ELSE 0]

\* filters.name as a number; an absent field reads undefined, which every
\* arithmetic operator and comparison of the engine coerces to NaN.
Field(f, name) == IF name \in DOMAIN f THEN Rat(f[name]) ELSE NaN

\* filters.name / 100
Intensity(f, name) == Field(f, name) // Rat(100)

(***************************************************************************)
(* Preset looks.  d is the working buffer, a function on 0..4*w*h-1; byte  *)
(* k belongs to pixel k \div 4 and channel k % 4 (3 is alpha).             *)
(***************************************************************************)

\* Byte k after data[i] = newR, data[i + 1] = newG, data[i + 2] = newB for
\* its pixel; alpha is not written.
Store(d, k, newR, newG, newB) ==
    CASE k % 4 = 0 -> ToUint8Clamp(newR)
      [] k % 4 = 1 -> ToUint8Clamp(newG)
      [] k % 4 = 2 -> ToUint8Clamp(newB)
      [] OTHER -> d[k]

\* The offsets i = 0, 4, 8, ... of the pixels of buffer d.
PixelsOf(d) == {k \in DOMAIN d : k % 4 = 0}

\* The bytes of d with <<R, G, B>> of the pixel at byte i stored from px[i].
StorePixels(d, px) ==
    [k \in DOMAIN d |-> IF k % 4 = 3 THEN d[k] ELSE ToUint8Clamp(px[k - (k % 4)][(k % 4) + 1])]

Red(d, k) == Rat(d[k - (k % 4)])

Green(d, k) == Rat(d[k - (k % 4) + 1])

Blue(d, k) == Rat(d[k - (k % 4) + 2])

\* Mutant: maxDistance is taken along the width only.
RadialSqWidthOnly(x, y, w, h) ==
    Frac((2 * x - w) * (2 * x - w) + (2 * y - h) * (2 * y - h), w * w)

\* (distance / maxDistance)^2 of pixel (x, y) from the centre (w/2, h/2).
RadialSq(x, y, w, h) ==
    Frac((2 * x - w) * (2 * x - w) + (2 * y - h) * (2 * y - h), w * w + h * h)

PixelX(k, w) == (k \div 4) % w

PixelY(k, w) == (k \div 4) \div w

\* Mutant: the vintage look leaves the buffer as it found it.
applyVintageNone(d, intensity) == d

applyVintage(d, intensity) ==
    [k \in DOMAIN d |->
        LET r == Red(d, k)
            g == Green(d, k)
            b == Blue(d, k)
            newR == (r ** (Rat(1) ++ (Frac(3, 10) ** intensity))) -- ((g ** Frac(1, 10)) ** intensity)
            newG == (g ** (Rat(1) ++ (Frac(1, 10) ** intensity))) -- ((b ** Frac(5, 100)) ** intensity)
            newB == (b ** (Rat(1) -- (Frac(2, 10) ** intensity))) ++ ((r ** Frac(1, 10)) ** intensity)
        IN  Store(d, k, Clamp(newR), Clamp(newG), Clamp(newB))]

applyDrama(d, intensity) ==
    [k \in DOMAIN d |->
        LET r == Red(d, k)
            g == Green(d, k)
            b == Blue(d, k)
            factor == Rat(1) ++ (intensity ** Frac(5, 10))
            contrast == Rat(1) ++ (intensity ** Frac(3, 10))
        IN  Store(d, k, Clamp((((r -- Rat(128)) ** contrast) ++ Rat(128)) ** factor),
                          Clamp((((g -- Rat(128)) ** contrast) ++ Rat(128)) ** factor),
                          Clamp((((b -- Rat(128)) ** contrast) ++ Rat(128)) ** factor))]

\* data[i + c] * gain * vignette with vignette = 1 - sqrt(q) * intensity * 0.7,
\* clamped and stored: the byte of a - a * 0.7 * intensity * sqrt(q).
LomoByte(c, gain, intensity, q) ==
    SqrtByte(Rat(c) ** gain, ((Rat(c) ** gain) ** intensity) ** Frac(7, 10), q)

applyLomo(d, w, h, intensity) ==
    [k \in DOMAIN d |->
        LET q == RadialSq(PixelX(k, w), PixelY(k, w), w, h)
        IN  CASE k % 4 = 0 -> LomoByte(d[k], Rat(1) ++ (intensity ** Frac(2, 10)), intensity, q)
              [] k % 4 = 1 -> LomoByte(d[k], Rat(1) -- (intensity ** Frac(1, 10)), intensity, q)
              [] k % 4 = 2 -> LomoByte(d[k], Rat(1) -- (intensity ** Frac(3, 10)), intensity, q)
              [] OTHER -> d[k]]

applyCrossProcess(d, intensity) ==
    [k \in DOMAIN d |->
        LET r == Red(d, k)
            g == Green(d, k)
            b == Blue(d, k)
            newR == (r ** (Rat(1) ++ (intensity ** Frac(4, 10)))) -- ((g ** intensity) ** Frac(2, 10))
            newG == (g ** (Rat(1) -- (intensity ** Frac(1, 10)))) ++ ((r ** intensity) ** Frac(1, 10))
            newB == (b ** (Rat(1) ++ (intensity ** Frac(3, 10)))) -- ((r ** intensity) ** Frac(1, 10))
        IN  Store(d, k, Clamp(newR), Clamp(newG), Clamp(newB))]

applyPinhole(d, w, h, intensity) ==
    [k \in DOMAIN d |->
        LET darkening == RadialSq(PixelX(k, w), PixelY(k, w), w, h) ** intensity
        IN  IF k % 4 = 3 THEN d[k]
            ELSE ToUint8Clamp(MathMax(Rat(0), Rat(d[k]) ** (Rat(1) -- darkening)))]

applyKodachrome(d, intensity) ==
    [k \in DOMAIN d |->
        LET r == Red(d, k)
            g == Green(d, k)
            b == Blue(d, k)
            luminance == ((Frac(299, 1000) ** r) ++ (Frac(587, 1000) ** g)) ++ (Frac(114, 1000) ** b)
            factor == luminance // Rat(255)
        IN  Store(d, k, Clamp(r ++ ((intensity ** Rat(20)) ** factor)),
                          Clamp(g ++ ((intensity ** Rat(10)) ** factor)),
                          Clamp(b -- ((intensity ** Rat(15)) ** (Rat(1) -- factor))))]

applyTechnicolor(d, intensity) ==
    [k \in DOMAIN d |->
        LET r == Red(d, k)
            g == Green(d, k)
            b == Blue(d, k)
            newR == (r ** (Rat(1) ++ (intensity ** Frac(3, 10)))) ++ ((g ** intensity) ** Frac(1, 10))
            newG == (g ** (Rat(1) ++ (intensity ** Frac(2, 10)))) -- ((r ** intensity) ** Frac(5, 100))
            newB == (b ** (Rat(1) ++ (intensity ** Frac(4, 10)))) -- ((g ** intensity) ** Frac(1, 10))
        IN  Store(d, k, Clamp(newR), Clamp(newG), Clamp(newB))]

applyPolaroid(d, intensity) ==
    [k \in DOMAIN d |->
        LET r == Red(d, k)
            g == Green(d, k)
            b == Blue(d, k)
        IN  Store(d, k, Clamp(r ++ (intensity ** Rat(15))),
                          Clamp(g ++ (intensity ** Rat(10))),
                          Clamp(b -- (intensity ** Rat(10))))]

(***************************************************************************)
(* Spatial effects                                                         *)
(***************************************************************************)

\* data[i] *= vignette with vignette = 1 - sqrt(q) * intensity.
\* Mutant: the distance is measured from the middle of the pixel, (x + 1/2, y + 1/2).
applyVignetteEffectPixelMiddle(d, w, h, intensity) ==
    [k \in DOMAIN d |->
        IF k % 4 = 3 THEN d[k]
        ELSE SqrtByte(Rat(d[k]), Rat(d[k]) ** intensity,
                      RadialSq(2 * PixelX(k, w) + 1, 2 * PixelY(k, w) + 1, 2 * w, 2 * h))]

applyVignetteEffect(d, w, h, intensity) ==
    [k \in DOMAIN d |->
        IF k % 4 = 3 THEN d[k]
        ELSE SqrtByte(Rat(d[k]), Rat(d[k]) ** intensity,
                      RadialSq(PixelX(k, w), PixelY(k, w), w, h))]

\* Math.pow(c / 255, 1 + intensity * 0.5) * 255, clamped.  The integer powers
\* of GePow stay within TLC's integers for the exponent 3/2 (hdr = 100); TLC
\* stops with an overflow error, never a wrong byte, for a larger numerator.
applyHDR(d, intensity) ==
    [k \in DOMAIN d |->
        IF k % 4 = 3 THEN d[k]
        ELSE PowByte(d[k], Rat(1) ++ (intensity ** Frac(5, 10)))]

\* Mutant: the channel loop runs to c < 4 and sharpens alpha too.
ClarifyPixelFourChannels(tempData, out, x, y, w, intensity) ==
    [k \in DOMAIN out |->
        IF k \div 4 = y * w + x /\ k % 4 < 4
        THEN LET c == k % 4
                 center == Rat(tempData[k])
                 total ==
                     tempData[((y - 1) * w + (x - 1)) * 4 + c] +
                     tempData[((y - 1) * w + x) * 4 + c] +
                     tempData[((y - 1) * w + (x + 1)) * 4 + c] +
                     tempData[(y * w + (x - 1)) * 4 + c] +
                     tempData[(y * w + (x + 1)) * 4 + c] +
                     tempData[((y + 1) * w + (x - 1)) * 4 + c] +
                     tempData[((y + 1) * w + x) * 4 + c] +
                     tempData[((y + 1) * w + (x + 1)) * 4 + c]
                 surrounding == Rat(total) // Rat(8)
                 sharpened == center ++ ((center -- surrounding) ** intensity)
             IN  ToUint8Clamp(Clamp(sharpened))
        ELSE out[k]]

\* The three channel writes of interior pixel (x, y): tempData is read, out
\* is written.
\* Mutant: the sharpened value of pixel (x, y) is written one pixel to the left.
ClarifyPixelShifted(tempData, out, x, y, w, intensity) ==
    [k \in DOMAIN out |->
        IF k \div 4 = y * w + x - 1 /\ k % 4 < 3
        THEN LET c == k % 4
                 center == Rat(tempData[k + 4])
                 total ==
                     tempData[((y - 1) * w + (x - 1)) * 4 + c] +
                     tempData[((y - 1) * w + x) * 4 + c] +
                     tempData[((y - 1) * w + (x + 1)) * 4 + c] +
                     tempData[(y * w + (x - 1)) * 4 + c] +
                     tempData[(y * w + (x + 1)) * 4 + c] +
                     tempData[((y + 1) * w + (x - 1)) * 4 + c] +
                     tempData[((y + 1) * w + x) * 4 + c] +
                     tempData[((y + 1) * w + (x + 1)) * 4 + c]
                 surrounding == Rat(total) // Rat(8)
                 sharpened == center ++ ((center -- surrounding) ** intensity)
             IN  ToUint8Clamp(Clamp(sharpened))
        ELSE out[k]]

ClarifyPixel(tempData, out, x, y, w, intensity) ==
    [k \in DOMAIN out |->
        IF k \div 4 = y * w + x /\ k % 4 < 3
        THEN LET c == k % 4
                 center == Rat(tempData[k])
                 total ==
                     tempData[((y - 1) * w + (x - 1)) * 4 + c] +
                     tempData[((y - 1) * w + x) * 4 + c] +
                     tempData[((y - 1) * w + (x + 1)) * 4 + c] +
                     tempData[(y * w + (x - 1)) * 4 + c] +
                     tempData[(y * w + (x + 1)) * 4 + c] +
                     tempData[((y + 1) * w + (x - 1)) * 4 + c] +
                     tempData[((y + 1) * w + x) * 4 + c] +
                     tempData[((y + 1) * w + (x + 1)) * 4 + c]
                 surrounding == Rat(total) // Rat(8)
                 sharpened == center ++ ((center -- surrounding) ** intensity)
             IN  ToUint8Clamp(Clamp(sharpened))
        ELSE out[k]]

\* Mutant: there is no copy; the stage reads the buffer it is writing.
TempDataLive(frozen, live) == live

\* const tempData = new Uint8ClampedArray(data): a read of tempData gives the
\* bytes copied on entry, whatever the loop has written into data since.
TempData(frozen, live) == frozen

\* The loops of applyClarify from interior pixel (x, y) on, rows outermost.
RECURSIVE ClarifyFrom(_, _, _, _, _, _, _)
ClarifyFrom(tempData, out, x, y, w, h, intensity) ==
    IF y >= h - 1 THEN out
    ELSE IF x >= w - 1 THEN ClarifyFrom(tempData, out, 1, y + 1, w, h, intensity)
    ELSE ClarifyFrom(tempData, ClarifyPixel(TempData(tempData, out), out, x, y, w, intensity),
                     x + 1, y, w, h, intensity)

\* tempData = new Uint8ClampedArray(data) is the buffer as the stage found it.
applyClarify(d, w, h, intensity) == ClarifyFrom(d, d, 1, 1, w, h, intensity)

(***************************************************************************)
(* Basic tonal stage                                                       *)
(***************************************************************************)

Max3(r, g, b) == MathMax(MathMax(r, g), b)

Min3(r, g, b) == MathMin(MathMin(r, g), b)

\* The scale hueShift returns its channels on: (nr + m) * 255.
HueOutputScale == Rat(255)

\* if (hue < 0) hue += 360
HueWrap(hue) == IF Lt(hue, Rat(0)) THEN hue ++ Rat(360) ELSE hue

\* hue = (hue * 60 + angle) % 360, then the wrap of a negative remainder
HueTurn(hue0, angle) == HueWrap(JsMod((hue0 ** Rat(60)) ++ angle, Rat(360)))

\* The sextant ladder: [nr, ng, nb] for the chroma c, the second component x
\* and the hue in degrees.
HueSextant(c, x, hue) ==
    IF Lt(hue, Rat(60)) THEN <<c, x, Rat(0)>>
    ELSE IF Lt(hue, Rat(120)) THEN <<x, c, Rat(0)>>
    ELSE IF Lt(hue, Rat(180)) THEN <<Rat(0), c, x>>
    ELSE IF Lt(hue, Rat(240)) THEN <<Rat(0), x, c>>
    ELSE IF Lt(hue, Rat(300)) THEN <<x, Rat(0), c>>
    ELSE <<c, Rat(0), x>>

\* return [(nr + m) * 255, (ng + m) * 255, (nb + m) * 255]
HueReturn(n, m) ==
    <<(n[1] ++ m) ** HueOutputScale, (n[2] ++ m) ** HueOutputScale,
      (n[3] ++ m) ** HueOutputScale>>

\* HSV back to RGB: c, x and m from value, saturation and the turned hue.
HueRebuild(value, saturation, hue) ==
    LET c == value ** saturation
        x == c ** (Rat(1) -- MathAbs(JsMod(hue // Rat(60), Rat(2)) -- Rat(1)))
    IN  HueReturn(HueSextant(c, x, hue), value -- c)

\* The hue of a chromatic pixel in sextants, before the angle is added.
HueOf(r, g, b, max, delta) ==
    IF StrictEq(max, r) THEN JsMod((g -- b) // delta, Rat(6))
    ELSE IF StrictEq(max, g) THEN ((b -- r) // delta) ++ Rat(2)
    ELSE ((r -- g) // delta) ++ Rat(4)

\* hueShift once max and min are known.
HueShiftOf(rgb, angle, max, min) ==
    IF StrictEq(max -- min, Rat(0)) THEN rgb
    ELSE HueRebuild(max,
                    IF StrictEq(max, Rat(0)) THEN Rat(0) ELSE (max -- min) // max,
                    HueTurn(HueOf(rgb[1], rgb[2], rgb[3], max, max -- min), angle))

hueShift(rgb, angle) ==
    HueShiftOf(rgb, angle, Max3(rgb[1], rgb[2], rgb[3]), Min3(rgb[1], rgb[2], rgb[3]))

\* Mutant: the weights of red and green are exchanged.
LumaSwapped(rgb) ==
    ((Frac(587, 1000) ** rgb[1]) ++ (Frac(299, 1000) ** rgb[2])) ++ (Frac(114, 1000) ** rgb[3])

\* 0.299 * r + 0.587 * g + 0.114 * b
Luma(rgb) ==
    ((Frac(299, 1000) ** rgb[1]) ++ (Frac(587, 1000) ** rgb[2])) ++ (Frac(114, 1000) ** rgb[3])

BrightnessStep(rgb, f) ==
    IF StrictNe(Field(f, "brightness"), Rat(100))
    THEN LET factor == Field(f, "brightness") // Rat(100)
         IN  <<rgb[1] ** factor, rgb[2] ** factor, rgb[3] ** factor>>
    ELSE rgb

\* 255 * (259 - filters.contrast)
ContrastDenominator(f) == Rat(255) ** (Rat(259) -- Field(f, "contrast"))

\* Mutant: the factor is the percentage, filters.contrast / 100.
ContrastStepPercent(rgb, f) ==
    IF StrictNe(Field(f, "contrast"), Rat(100))
    THEN LET factor == Field(f, "contrast") // Rat(100)
         IN  <<(factor ** (rgb[1] -- Rat(128))) ++ Rat(128),
               (factor ** (rgb[2] -- Rat(128))) ++ Rat(128),
               (factor ** (rgb[3] -- Rat(128))) ++ Rat(128)>>
    ELSE rgb

ContrastStep(rgb, f) ==
    IF StrictNe(Field(f, "contrast"), Rat(100))
    THEN LET factor == (Rat(259) ** (Field(f, "contrast") ++ Rat(255))) // ContrastDenominator(f)
         IN  <<(factor ** (rgb[1] -- Rat(128))) ++ Rat(128),
               (factor ** (rgb[2] -- Rat(128))) ++ Rat(128),
               (factor ** (rgb[3] -- Rat(128))) ++ Rat(128)>>
    ELSE rgb

SaturationStep(rgb, f) ==
    IF StrictNe(Field(f, "saturation"), Rat(100))
    THEN LET gray == Luma(rgb)
             factor == Field(f, "saturation") // Rat(100)
         IN  <<gray ++ (factor ** (rgb[1] -- gray)),
               gray ++ (factor ** (rgb[2] -- gray)),
               gray ++ (factor ** (rgb[3] -- gray))>>
    ELSE rgb

TemperatureStep(rgb, f) ==
    IF StrictNe(Field(f, "temperature"), Rat(0))
    THEN LET temp == Field(f, "temperature") // Rat(100)
         IN  <<rgb[1] ++ (temp ** Rat(30)), rgb[2], rgb[3] -- (temp ** Rat(30))>>
    ELSE rgb

\* Mutant: the hue helper is called without the hue !== 0 gate.
HueStepUngated(rgb, f) == hueShift(rgb, Field(f, "hue"))

HueStep(rgb, f) ==
    IF StrictNe(Field(f, "hue"), Rat(0)) THEN hueShift(rgb, Field(f, "hue")) ELSE rgb

GrayscaleStep(rgb, f) ==
    IF Gt(Field(f, "grayscale"), Rat(0))
    THEN LET gray == Luma(rgb)
             factor == Field(f, "grayscale") // Rat(100)
         IN  <<(rgb[1] ** (Rat(1) -- factor)) ++ (gray ** factor),
               (rgb[2] ** (Rat(1) -- factor)) ++ (gray ** factor),
               (rgb[3] ** (Rat(1) -- factor)) ++ (gray ** factor)>>
    ELSE rgb

\* Mutant: the blue row repeats the coefficients of the green row.
SepiaStepGreenRowTwice(rgb, f) ==
    IF Gt(Field(f, "sepia"), Rat(0))
    THEN LET factor == Field(f, "sepia") // Rat(100)
             tr == ((Frac(393, 1000) ** rgb[1]) ++ (Frac(769, 1000) ** rgb[2])) ++ (Frac(189, 1000) ** rgb[3])
             tg == ((Frac(349, 1000) ** rgb[1]) ++ (Frac(686, 1000) ** rgb[2])) ++ (Frac(168, 1000) ** rgb[3])
             tb == ((Frac(349, 1000) ** rgb[1]) ++ (Frac(686, 1000) ** rgb[2])) ++ (Frac(168, 1000) ** rgb[3])
         IN  <<(rgb[1] ** (Rat(1) -- factor)) ++ (tr ** factor),
               (rgb[2] ** (Rat(1) -- factor)) ++ (tg ** factor),
               (rgb[3] ** (Rat(1) -- factor)) ++ (tb ** factor)>>
    ELSE rgb

SepiaStep(rgb, f) ==
    IF Gt(Field(f, "sepia"), Rat(0))
    THEN LET factor == Field(f, "sepia") // Rat(100)
             tr == ((Frac(393, 1000) ** rgb[1]) ++ (Frac(769, 1000) ** rgb[2])) ++ (Frac(189, 1000) ** rgb[3])
             tg == ((Frac(349, 1000) ** rgb[1]) ++ (Frac(686, 1000) ** rgb[2])) ++ (Frac(168, 1000) ** rgb[3])
             tb == ((Frac(272, 1000) ** rgb[1]) ++ (Frac(534, 1000) ** rgb[2])) ++ (Frac(131, 1000) ** rgb[3])
         IN  <<(rgb[1] ** (Rat(1) -- factor)) ++ (tr ** factor),
               (rgb[2] ** (Rat(1) -- factor)) ++ (tg ** factor),
               (rgb[3] ** (Rat(1) -- factor)) ++ (tb ** factor)>>
    ELSE rgb

\* Mutant: the channels are written as the steps left them.
ClampPixelNone(rgb) == rgb

\* r = Math.max(0, Math.min(255, r)), and so for g and b
ClampPixel(rgb) == <<Clamp(rgb[1]), Clamp(rgb[2]), Clamp(rgb[3])>>

\* Mutant: the channels are clamped after every step, not once at the end.
BasicPixelClampEach(rgb, f) ==
    SepiaStep(ClampPixel(GrayscaleStep(ClampPixel(HueStep(ClampPixel(TemperatureStep(
        ClampPixel(SaturationStep(ClampPixel(ContrastStep(ClampPixel(
            BrightnessStep(rgb, f)), f)), f)), f)), f)), f)), f)

\* One iteration of the loop of applyBasicFilters, up to the clamp.
BasicPixel(rgb, f) ==
    SepiaStep(GrayscaleStep(HueStep(TemperatureStep(
        SaturationStep(ContrastStep(BrightnessStep(rgb, f), f), f), f), f), f), f)

applyBasicFilters(d, f) ==
    StorePixels(d, [i \in PixelsOf(d) |->
                       ClampPixel(BasicPixel(<<Rat(d[i]), Rat(d[i + 1]), Rat(d[i + 2])>>, f))])

(***************************************************************************)
(* Inputs: canvases and parameter sets                                     *)
(***************************************************************************)

MaxDim == 3

MaxCalls == 3

\* Widest canvas of the runs that look at clarify (two interior pixels in a
\* row need width 4).
MaxWide == 4

\* RGBA colours the canvases are painted with: white, two chromatic colours
\* (one translucent), mid gray, transparent black, a chromatic green.
Palette ==
    <<  <<255, 255, 255, 255>>, <<200, 100, 52, 255>>, <<12, 60, 250, 128>>,
        <<128, 128, 128, 255>>, <<0, 0, 0, 0>>, <<90, 200, 32, 77>>  >>

\* The two canvases of each size: 0 is all white, 1 is patterned.
Seeds == {0, 1}

\* A w x h canvas: all white for seed 0, else pixel p has colour number
\* p + seed of the palette.
Canvas(w, h, seed) ==
    [k \in 0..(4 * w * h - 1) |->
        IF seed = 0 THEN Palette[1][(k % 4) + 1]
        ELSE Palette[(((k \div 4) + seed) % Len(Palette)) + 1][(k % 4) + 1]]

With(name, v) == [defaultFilters EXCEPT ![name] = v]

Without(f, name) == [n \in (DOMAIN f) \ {name} |-> f[n]]

\* The parameter set exported by utils/imageProcessor.ts: four fields only.
fourFieldFilters == [n \in {"grayscale", "sepia", "brightness", "contrast"} |-> defaultFilters[n]]

SingleFieldInputs ==
    {With("brightness", v) : v \in {0, 150, 200}} \cup
    {With("contrast", v) : v \in {0, 50, 200}} \cup
    {With("saturation", v) : v \in {0, 200}} \cup
    {With("temperature", v) : v \in {-100, 50}} \cup
    {With("hue", v) : v \in {-180, -90, 120, 180, 360}} \cup
    {With("grayscale", v) : v \in {50, 100}} \cup
    {With("sepia", v) : v \in {50, 100}} \cup
    {With("blur", 5), With("sharpen", 50)} \cup
    {With("vignette", v) : v \in {50, 100}} \cup
    {With("hdr", 100)} \cup
    {With("clarify", v) : v \in {50, 100}} \cup
    {With(PresetNames[i], 100) : i \in 1..Len(PresetNames)} \cup
    {With(n, 70) : n \in {"vintage", "drama", "cross", "kodachrome", "technicolor", "polaroid"}}

CombinedInputs ==
    { [defaultFilters EXCEPT !["vintage"] = 100, !["drama"] = 100],
      [defaultFilters EXCEPT !["cross"] = 100, !["polaroid"] = 100, !["lomo"] = 100],
      [n \in FieldNames |->
          IF n \in {"brightness", "contrast", "saturation"} \/ n \in {"blur", "sharpen"}
          THEN defaultFilters[n] ELSE IF n \in {"hue", "temperature", "grayscale", "sepia"}
          THEN 0 ELSE 100],
      [defaultFilters EXCEPT !["technicolor"] = 100, !["brightness"] = 150, !["vignette"] = 100],
      [defaultFilters EXCEPT !["brightness"] = 200, !["contrast"] = 50, !["sepia"] = 100],
      [defaultFilters EXCEPT !["temperature"] = 50, !["hue"] = 120, !["grayscale"] = 50],
      [defaultFilters EXCEPT !["vignette"] = 100, !["hdr"] = 100, !["clarify"] = 100],
      [defaultFilters EXCEPT !["kodachrome"] = 100, !["saturation"] = 0, !["clarify"] = 50] }

MissingFieldInputs ==
    {Without(defaultFilters, n) : n \in FieldNames} \cup {fourFieldFilters}

\* Parameter sets for a processor that is applied more than once.
RepeatInputs ==
    { defaultFilters, With("brightness", 150), With("hue", 120), With("vintage", 100),
      With("vignette", 100), Without(defaultFilters, "saturation"),
      [defaultFilters EXCEPT !["vignette"] = 100, !["hdr"] = 100, !["clarify"] = 100] }

\* Parameter sets and canvases for the runs that look at clarify.
ClarifyInputs ==
    { defaultFilters, With("clarify", 30), With("clarify", 50), With("clarify", 100),
      Without(defaultFilters, "clarify"),
      [defaultFilters EXCEPT !["vignette"] = 100, !["hdr"] = 100, !["clarify"] = 100],
      [defaultFilters EXCEPT !["kodachrome"] = 100, !["saturation"] = 0, !["clarify"] = 50] }

ClarifySeeds == {0, 2, 3}

\* The contrast slider ends at 200 (it starts at 0).
MaxContrast == 200

\* Every contrast of the slider, alone.
ContrastInputs == {With("contrast", c) : c \in 0..MaxContrast}

\* The ends of the sliders of the basic tonal stage that are not the neutral
\* value of their field.
SliderEnds ==
    [brightness |-> {0, 200}, contrast |-> {0, MaxContrast}, saturation |-> {0, 200},
     temperature |-> {-100, 100}, hue |-> {-180, 180}, grayscale |-> {100},
     sepia |-> {100}]

\* Every two fields of the basic tonal stage at an end of their sliders.  The
\* pair contrast 200, saturation 200 is left out: its exact fractions do not
\* fit TLC's integers.
ExtremeInputs ==
    UNION { UNION { { [defaultFilters EXCEPT ![m] = a, ![n] = b] :
                          a \in SliderEnds[m], b \in SliderEnds[n] } :
                    n \in (DOMAIN SliderEnds) \ {m} } :
            m \in DOMAIN SliderEnds }
    \ { [defaultFilters EXCEPT !["contrast"] = MaxContrast, !["saturation"] = 200] }

\* Parameter sets for runs that are fed the output of the run before.
ChainInputs == {defaultFilters, With("vintage", 50), With("vintage", 100)}

\* One-pixel canvases, one for each colour of the palette.
RangeSeeds == 0..(Len(Palette) - 1)

FilterInputs == {defaultFilters} \cup SingleFieldInputs \cup CombinedInputs \cup MissingFieldInputs

(***************************************************************************)
(* Doubles                                                                 *)
(*                                                                         *)
(* The geometry of createFormattedImage is computed in IEEE 754 doubles,   *)
(* rounding included.  A natural number is a sequence of limbs of LimbBits *)
(* bits, lowest limb first, with no leading zero limb (0 is <<>>); a       *)
(* finite double is <<s, m, e>> = s * m * 2^e with s in {-1, 0, 1} and m   *)
(* odd, of at most DblPrecision bits.  Infinities, NaN and subnormals are  *)
(* out of reach of images and canvases of positive size and are not        *)
(* represented.                                                            *)
(***************************************************************************)

\* Bits of the significand of a double.
DblPrecision == 53

LimbBits == 15

LimbBase == 2^LimbBits

RECURSIVE NatOf(_)
NatOf(n) == IF n = 0 THEN <<>> ELSE <<n % LimbBase>> \o NatOf(n \div LimbBase)

\* a without its leading zero limbs
NatTrim(a) ==
    IF \A i \in 1..Len(a) : a[i] = 0 THEN <<>>
    ELSE SubSeq(a, 1, CHOOSE i \in 1..Len(a) :
                          a[i] # 0 /\ \A j \in (i + 1)..Len(a) : a[j] = 0)

LimbAt(a, i) == IF i >= 1 /\ i <= Len(a) THEN a[i] ELSE 0

RECURSIVE NatAddFrom(_, _, _, _)
NatAddFrom(a, b, i, carry) ==
    IF i > Len(a) /\ i > Len(b) THEN (IF carry = 1 THEN <<1>> ELSE <<>>)
    ELSE <<(LimbAt(a, i) + LimbAt(b, i) + carry) % LimbBase>>
            \o NatAddFrom(a, b, i + 1, (LimbAt(a, i) + LimbAt(b, i) + carry) \div LimbBase)

NatAdd(a, b) == NatAddFrom(a, b, 1, 0)

\* a - b for a >= b
RECURSIVE NatSubFrom(_, _, _, _)
NatSubFrom(a, b, i, borrow) ==
    IF i > Len(a) THEN <<>>
    ELSE <<(LimbAt(a, i) - LimbAt(b, i) - borrow + LimbBase) % LimbBase>>
            \o NatSubFrom(a, b, i + 1, IF LimbAt(a, i) - LimbAt(b, i) - borrow < 0 THEN 1 ELSE 0)

NatSub(a, b) == NatTrim(NatSubFrom(a, b, 1, 0))

RECURSIVE NatCmpFrom(_, _, _)
NatCmpFrom(a, b, i) ==
    IF i = 0 THEN 0
    ELSE IF a[i] # b[i] THEN (IF a[i] > b[i] THEN 1 ELSE -1)
    ELSE NatCmpFrom(a, b, i - 1)

\* -1, 0, 1 as a < b, a = b, a > b
NatCmp(a, b) ==
    IF Len(a) # Len(b) THEN (IF Len(a) > Len(b) THEN 1 ELSE -1)
    ELSE NatCmpFrom(a, b, Len(a))

\* a * n for one limb n
RECURSIVE NatTimesFrom(_, _, _, _)
NatTimesFrom(a, n, i, carry) ==
    IF i > Len(a) THEN (IF carry = 0 THEN <<>> ELSE <<carry>>)
    ELSE <<(a[i] * n + carry) % LimbBase>>
            \o NatTimesFrom(a, n, i + 1, (a[i] * n + carry) \div LimbBase)

NatTimes(a, n) == IF n = 0 THEN <<>> ELSE NatTimesFrom(a, n, 1, 0)

\* a * LimbBase^k
NatShift(a, k) == IF a = <<>> THEN <<>> ELSE [i \in 1..k |-> 0] \o a

RECURSIVE NatMul(_, _)
NatMul(a, b) ==
    IF b = <<>> \/ a = <<>> THEN <<>>
    ELSE NatAdd(NatTimes(a, Head(b)), NatShift(NatMul(a, Tail(b)), 1))

\* 2^n
NatPow2(n) == [i \in 1..(n \div LimbBits) |-> 0] \o <<2^(n % LimbBits)>>

\* a * 2^(LimbBits * limbs + bits)
NatShlBy(a, limbs, bits) ==
    NatTrim([i \in 1..(Len(a) + limbs + 1) |->
                ((LimbAt(a, i - limbs) * (2^bits)) % LimbBase)
                + ((LimbAt(a, i - limbs - 1) * (2^bits)) \div LimbBase)])

NatShl(a, n) == NatShlBy(a, n \div LimbBits, n % LimbBits)

\* a div 2^(LimbBits * limbs + bits)
NatShrBy(a, limbs, bits) ==
    NatTrim([i \in 1..(Len(a) - limbs) |->
                (LimbAt(a, i + limbs) \div (2^bits))
                + ((LimbAt(a, i + limbs + 1) % (2^bits)) * (2^(LimbBits - bits)))])

NatShr(a, n) == NatShrBy(a, n \div LimbBits, n % LimbBits)

\* a mod 2^(LimbBits * limbs + bits)
NatLowBy(a, limbs, bits) ==
    NatTrim([i \in 1..(limbs + 1) |->
                IF i <= limbs THEN LimbAt(a, i) ELSE LimbAt(a, i) % (2^bits)])

NatLow(a, n) == NatLowBy(a, n \div LimbBits, n % LimbBits)

\* The largest d among from, from + step, ..., from + 31 * step with b * d <= cur.
NatDigitAt(cur, b, from, step) ==
    from + step * (CHOOSE j \in 0..31 :
                       /\ NatCmp(NatTimes(b, from + step * j), cur) <= 0
                       /\ j = 31 \/ NatCmp(NatTimes(b, from + step * (j + 1)), cur) > 0)

\* The largest limb d with b * d <= cur (b <= cur or d = 0), found five bits
\* at a time.
NatDigit(cur, b) == NatDigitAt(cur, b, NatDigitAt(cur, b, NatDigitAt(cur, b, 0, 1024), 32), 1)

\* <<a div b, a mod b>> for b > 0, by long division from limb i of a down:
\* the remainder so far takes limb i (cur), and gives up b * d for the
\* largest limb d it can.
RECURSIVE NatDivFrom(_, _, _, _, _)
NatDivStep(a, b, i, cur, d, q) ==
    NatDivFrom(a, b, i - 1, NatSub(cur, NatTimes(b, d)), <<d>> \o q)

NatDivFrom(a, b, i, rem, q) ==
    IF i = 0 THEN <<NatTrim(q), rem>>
    ELSE NatDivStep(a, b, i, NatTrim(<<a[i]>> \o rem),
                    NatDigit(NatTrim(<<a[i]>> \o rem), b), q)

NatDivMod(a, b) == NatDivFrom(a, b, Len(a), <<>>, <<>>)

\* The number of bits of a.
NatBitLen(a) ==
    IF a = <<>> THEN 0
    ELSE LimbBits * (Len(a) - 1)
            + (CHOOSE k \in 1..LimbBits : 2^(k - 1) <= a[Len(a)] /\ a[Len(a)] < 2^k)

\* The number of zero bits below the lowest 1 of a # 0, whose lowest limb
\* that is not 0 is limb i.
NatLowZerosAt(a, i) ==
    LimbBits * (i - 1) + (CHOOSE k \in 0..(LimbBits - 1) : a[i] % 2^(k + 1) = 2^k)

NatLowZeros(a) ==
    NatLowZerosAt(a, CHOOSE i \in 1..Len(a) : a[i] # 0 /\ \A j \in 1..(i - 1) : a[j] = 0)

DblZero == <<0, <<>>, 0>>

\* s * m * 2^e with the low zero bits of m moved into the exponent.
DblCanon(s, m, e) ==
    IF m = <<>> \/ s = 0 THEN DblZero
    ELSE <<s, NatShr(m, NatLowZeros(m)), e + NatLowZeros(m)>>

\* The quotient q of a division by 2 * half, rounded to nearest on the
\* remainder rem, ties to even.
NatRoundHalfEven(q, rem, half) ==
    IF NatCmp(rem, half) > 0 \/ (NatCmp(rem, half) = 0 /\ q[1] % 2 = 1)
    THEN NatAdd(q, <<1>>)
    ELSE q

\* The double nearest to the exact value t = <<s, m, e>>, m of len bits.
DblRoundAt(t, len) ==
    IF len <= DblPrecision THEN DblCanon(t[1], t[2], t[3])
    ELSE DblCanon(t[1],
                  NatRoundHalfEven(NatShr(t[2], len - DblPrecision),
                                   NatLow(t[2], len - DblPrecision),
                                   NatPow2(len - DblPrecision - 1)),
                  t[3] + len - DblPrecision)

DblRound(t) == DblRoundAt(t, NatBitLen(t[2]))

DblFromInt(n) == DblCanon(IF n < 0 THEN -1 ELSE 1, NatOf(IAbs(n)), 0)

DblNeg(x) == <<-x[1], x[2], x[3]>>

\* x + y, exact, for the significands a of x and b of y at the exponent e
ExactAddAt(x, y, a, b, e) ==
    IF x[1] * y[1] >= 0
    THEN DblCanon(IF x[1] # 0 THEN x[1] ELSE y[1], NatAdd(a, b), e)
    ELSE IF NatCmp(a, b) >= 0 THEN DblCanon(x[1], NatSub(a, b), e)
    ELSE DblCanon(y[1], NatSub(b, a), e)

ExactAddTo(x, y, e) ==
    ExactAddAt(x, y, NatShl(x[2], x[3] - e), NatShl(y[2], y[3] - e), e)

ExactAdd(x, y) == ExactAddTo(x, y, IF x[3] < y[3] THEN x[3] ELSE y[3])

ExactSub(x, y) == ExactAdd(x, DblNeg(y))

ExactLe(x, y) == ExactSub(x, y)[1] <= 0

\* a - b
DblSub(x, y) == DblRound(ExactSub(x, y))

\* a * b
DblMul(x, y) == DblRound(<<x[1] * y[1], NatMul(x[2], y[2]), x[3] + y[3]>>)

\* Twice the quotient dm[1], plus 1 when the division left a remainder, so
\* that rounding sees what was cut off.
DblQuotient(dm) == NatAdd(NatTimes(dm[1], 2), IF dm[2] = <<>> THEN <<>> ELSE <<1>>)

\* a / b for b # 0: k is large enough for the quotient to have more than
\* DblPrecision + 1 bits.
DblDivAt(x, y, k) ==
    DblRound(<<x[1] * y[1], DblQuotient(NatDivMod(NatShl(x[2], k), y[2])),
               x[3] - y[3] - k - 1>>)

DblDiv(x, y) ==
    IF x[1] = 0 THEN DblZero ELSE DblDivAt(x, y, DblPrecision + 2 + NatBitLen(y[2]))

\* Math.min(a, b)
MathMinDbl(x, y) == IF ExactLe(x, y) THEN x ELSE y

(***************************************************************************)
(* The processor                                                           *)
(***************************************************************************)

\* if (filters.<name> > 0) this.apply<Look>(data, ..., filters.<name> / 100)
Look(name, d, w, h, f) ==
    IF ~Gt(Field(f, name), Rat(0)) THEN d
    ELSE CASE name = "vintage" -> applyVintage(d, Intensity(f, name))
           [] name = "drama" -> applyDrama(d, Intensity(f, name))
           [] name = "lomo" -> applyLomo(d, w, h, Intensity(f, name))
           [] name = "cross" -> applyCrossProcess(d, Intensity(f, name))
           [] name = "pinhole" -> applyPinhole(d, w, h, Intensity(f, name))
           [] name = "kodachrome" -> applyKodachrome(d, Intensity(f, name))
           [] name = "technicolor" -> applyTechnicolor(d, Intensity(f, name))
           [] name = "polaroid" -> applyPolaroid(d, Intensity(f, name))

\* The buffer after the first n statements of applyPresetFilters, in the
\* order the looks are listed in.
RECURSIVE LooksUpTo(_, _, _, _, _, _)
LooksUpTo(order, n, d, w, h, f) ==
    IF n = 0 THEN d
    ELSE Look(order[n], LooksUpTo(order, n - 1, d, w, h, f), w, h, f)

\* Mutant: drama is applied before vintage.
PresetOrderSwapped ==
    <<"drama", "vintage", "lomo", "cross", "pinhole", "kodachrome", "technicolor", "polaroid">>

PresetOrder == PresetNames

applyPresetFilters(d, w, h, f) == LooksUpTo(PresetOrder, Len(PresetOrder), d, w, h, f)

\* Mutant: the clarify statement also runs for the sharpen field.
EffectReadsSharpen(name, d, w, h, f) ==
    IF name = "clarify" /\ Gt(Field(f, "sharpen"), Rat(0))
    THEN applyClarify(d, w, h, Intensity(f, "sharpen"))
    ELSE IF ~Gt(Field(f, name), Rat(0)) THEN d
    ELSE CASE name = "vignette" -> applyVignetteEffect(d, w, h, Intensity(f, name))
           [] name = "hdr" -> applyHDR(d, Intensity(f, name))
           [] name = "clarify" -> applyClarify(d, w, h, Intensity(f, name))

\* if (filters.<name> > 0) this.apply<Effect>(data, ..., filters.<name> / 100)
Effect(name, d, w, h, f) ==
    IF ~Gt(Field(f, name), Rat(0)) THEN d
    ELSE CASE name = "vignette" -> applyVignetteEffect(d, w, h, Intensity(f, name))
           [] name = "hdr" -> applyHDR(d, Intensity(f, name))
           [] name = "clarify" -> applyClarify(d, w, h, Intensity(f, name))

\* The buffer after the first n statements of applyAdvancedEffects.
RECURSIVE EffectsUpTo(_, _, _, _, _, _)
EffectsUpTo(order, n, d, w, h, f) ==
    IF n = 0 THEN d
    ELSE Effect(order[n], EffectsUpTo(order, n - 1, d, w, h, f), w, h, f)

EffectOrder == <<"vignette", "hdr", "clarify">>

applyAdvancedEffects(d, w, h, f) == EffectsUpTo(EffectOrder, Len(EffectOrder), d, w, h, f)

\* Mutant: the working buffer is not reset.
ResetDataKeep(orig, d) == d

\* this.imageData.data.set(this.originalData)
ResetData(orig, d) == orig

\* Mutant: originalData is the working buffer itself, not a copy of it.
SnapshotAliased(orig, written) == written

\* this.originalData = new Uint8ClampedArray(this.imageData.data): a copy, so
\* it holds orig whatever the stages have written into the working buffer.
Snapshot(orig, written) == orig

\* Mutant: the basic tonal stage runs before the preset looks.
ProcessedBasicFirst(orig, d, w, h, f) ==
    LET afterReset == ResetData(orig, d)
        afterBasic == applyBasicFilters(afterReset, f)
        afterPresets == applyPresetFilters(afterBasic, w, h, f)
    IN  applyAdvancedEffects(afterPresets, w, h, f)

\* The working buffer applyAdvancedFilters(f) leaves, found holding d.
Processed(orig, d, w, h, f) ==
    LET afterReset == ResetData(orig, d)
        afterPresets == applyPresetFilters(afterReset, w, h, f)
        afterBasic == applyBasicFilters(afterPresets, f)
    IN  applyAdvancedEffects(afterBasic, w, h, f)

(***************************************************************************)
(* App and its components: the state before any upload                     *)
(***************************************************************************)

\* defaultFormatOptions: of a FormatOptions the model keeps the id of the
\* preset; App.tsx sets aspectRatio with the preset and never sets size, and
\* the background colour is left at its default.
defaultFormatOptions == [preset |-> "instagram-square"]

\* The canvas createFormattedImage(img, options, f) returns for the file of
\* image id, and its data URL: named by the three arguments that determine it.
Rendering(id, options, f) == [image |-> id, options |-> options, filters |-> f]

\* useState<string>(''), and the processed and canvas fields of an image that
\* no run has updated yet.
NoUrl == Rendering(0, defaultFormatOptions, defaultFilters)

\* MobilePhotoEditor as mounted: currentImageIndex, isProcessing, previewUrl.
MobileMounted == [currentImageIndex |-> 0, isProcessing |-> FALSE, previewUrl |-> NoUrl]

\* The last handler that ran, for the properties about one handler.
NoOp == [op |-> "none", id |-> 0, key |-> "none"]

\* App as mounted: no image, hence no card and no MobilePhotoEditor.
InitApp ==
    /\ images = <<>>
    /\ globalFilters = defaultFilters
    /\ formatOptions = defaultFormatOptions
    /\ cards = [id \in {} |-> NoUrl]
    /\ mobile = MobileMounted
    /\ inflight = <<>>
    /\ nextId = 1
    /\ lastOp = NoOp

\* The value of formatted where createFormattedImage has not placed an image.
NotFormatted == [preset |-> "none"]

\* new AdvancedFilterProcessor(canvas): imageData and originalData both hold
\* the canvas pixels.
Init ==
    /\ width \in 1..MaxDim
    /\ height \in 1..MaxDim
    /\ \E seed \in Seeds : canvasPixels = Canvas(width, height, seed)
    /\ data = canvasPixels
    /\ originalData = canvasPixels
    /\ filters = defaultFilters
    /\ pc = "constructed"
    /\ calls = 0
    /\ formatted = NotFormatted
    /\ InitApp

\* processor.applyAdvancedFilters(f), from the reset to putImageData; calls
\* counts the applications so far.
applyAdvancedFilters(f) ==
    /\ filters' = f
    /\ data' = Processed(originalData, data, width, height, f)
    /\ canvasPixels' = data'
    /\ pc' = "returned"
    /\ calls' = calls + 1
    /\ originalData' = Snapshot(originalData, data')
    /\ UNCHANGED <<width, height, formatted, appVars>>

\* createFormattedImage builds a processor and applies one parameter set.
Next == \E f \in FilterInputs : pc = "constructed" /\ applyAdvancedFilters(f)

Spec == Init /\ [][Next]_vars

\* One processor applied again and again.
NextRepeated == \E f \in RepeatInputs : calls < MaxCalls /\ applyAdvancedFilters(f)

SpecRepeated == Init /\ [][NextRepeated]_vars

\* A processor built on a canvas up to MaxWide wide.
InitWide ==
    /\ width \in 1..MaxWide
    /\ height \in 1..MaxDim
    /\ \E seed \in ClarifySeeds : canvasPixels = Canvas(width, height, seed)
    /\ data = canvasPixels
    /\ originalData = canvasPixels
    /\ filters = defaultFilters
    /\ pc = "constructed"
    /\ calls = 0
    /\ formatted = NotFormatted
    /\ InitApp

NextClarify == \E f \in ClarifyInputs : pc = "constructed" /\ applyAdvancedFilters(f)

SpecClarify == InitWide /\ [][NextClarify]_vars

\* A processor built on a one-pixel canvas.
InitOnePixel ==
    /\ width = 1
    /\ height = 1
    /\ \E seed \in RangeSeeds : canvasPixels = Canvas(width, height, seed)
    /\ data = canvasPixels
    /\ originalData = canvasPixels
    /\ filters = defaultFilters
    /\ pc = "constructed"
    /\ calls = 0
    /\ formatted = NotFormatted
    /\ InitApp

\* One application, of a contrast of the slider or of a combination of
\* slider ends.
NextRanges ==
    \/ \E f \in ContrastInputs : pc = "constructed" /\ applyAdvancedFilters(f)
    \/ \E f \in ExtremeInputs : pc = "constructed" /\ applyAdvancedFilters(f)

SpecRanges == InitOnePixel /\ [][NextRanges]_vars

\* new AdvancedFilterProcessor(canvas) on the canvas an earlier processor has
\* written: imageData and originalData both hold that output.
Construct ==
    /\ pc = "returned"
    /\ calls < MaxCalls
    /\ data' = canvasPixels
    /\ originalData' = canvasPixels
    /\ pc' = "constructed"
    /\ UNCHANGED <<width, height, canvasPixels, filters, calls, formatted, appVars>>

\* Runs in sequence, each by a new processor on the canvas of the run before.
NextChained ==
    \/ \E f \in ChainInputs : pc = "constructed" /\ applyAdvancedFilters(f)
    \/ Construct

SpecChained == Init /\ [][NextChained]_vars

(***************************************************************************)
(* createFormattedImage: the canvas and the placement of the image         *)
(***************************************************************************)

\* formatPresets: id, aspectRatio, width and height of each entry.
formatPresets ==
    << [id |-> "original", aspectRatio |-> DblFromInt(0), width |-> 0, height |-> 0],
       [id |-> "instagram-square", aspectRatio |-> DblFromInt(1), width |-> 1080, height |-> 1080],
       [id |-> "instagram-story", aspectRatio |-> DblDiv(DblFromInt(9), DblFromInt(16)),
        width |-> 1080, height |-> 1920],
       [id |-> "instagram-reels", aspectRatio |-> DblDiv(DblFromInt(9), DblFromInt(16)),
        width |-> 1080, height |-> 1920],
       [id |-> "instagram-portrait", aspectRatio |-> DblDiv(DblFromInt(4), DblFromInt(5)),
        width |-> 1080, height |-> 1350],
       [id |-> "instagram-profile", aspectRatio |-> DblFromInt(1), width |-> 400, height |-> 400],
       [id |-> "instagram-landscape", aspectRatio |-> DblDiv(DblFromInt(16), DblFromInt(9)),
        width |-> 1920, height |-> 1080],
       [id |-> "youtube-thumbnail", aspectRatio |-> DblDiv(DblFromInt(16), DblFromInt(9)),
        width |-> 1280, height |-> 720],
       [id |-> "twitter-post", aspectRatio |-> DblDiv(DblFromInt(16), DblFromInt(9)),
        width |-> 1200, height |-> 675],
       [id |-> "linkedin-post", aspectRatio |-> DblDiv(DblFromInt(191), DblFromInt(100)),
        width |-> 1200, height |-> 628] >>

\* defaultFormatOptions with the preset the user picked: App.tsx replaces
\* preset and aspectRatio together and never touches size.
FormatOptionsOf(preset) ==
    [size |-> DblFromInt(1080), aspectRatio |-> preset.aspectRatio, preset |-> preset]

\* <<width, height>> of the images handed to createFormattedImage: camera
\* photos, phone screenshots and images that already have a preset's size.
ImageSizes ==
    { <<4032, 3024>>, <<3024, 4032>>, <<1920, 1080>>, <<1080, 1920>>,
      <<750, 1334>>, <<1334, 750>>, <<1170, 2532>>, <<1125, 2436>>,
      <<1242, 2688>>, <<640, 480>>, <<1000, 1000>>, <<1080, 1080>> }

\* canvasWidth (lines 18-36); image is <<width, height>>.
CanvasWidth(image, options) ==
    IF options.preset.id = "original" THEN DblFromInt(image[1])
    ELSE IF options.preset.width # 0 /\ options.preset.height # 0
    THEN DblFromInt(options.preset.width)
    ELSE IF ExactLe(DblFromInt(1), options.aspectRatio) THEN options.size
    ELSE DblMul(options.size, options.aspectRatio)

\* canvasHeight (lines 18-36)
CanvasHeight(image, options) ==
    IF options.preset.id = "original" THEN DblFromInt(image[2])
    ELSE IF options.preset.width # 0 /\ options.preset.height # 0
    THEN DblFromInt(options.preset.height)
    ELSE IF ExactLe(DblFromInt(1), options.aspectRatio)
    THEN DblDiv(options.size, options.aspectRatio)
    ELSE options.size

\* scale = Math.min(canvasWidth / imgWidth, canvasHeight / imgHeight), or 1
Scale(image, options) ==
    IF options.preset.id = "original" THEN DblFromInt(1)
    ELSE MathMinDbl(DblDiv(CanvasWidth(image, options), DblFromInt(image[1])),
                    DblDiv(CanvasHeight(image, options), DblFromInt(image[2])))

\* The locals of createFormattedImage at ctx.drawImage (line 74), given the
\* canvas size and the scale.
Placement(image, options, canvasWidth, canvasHeight, scale) ==
    IF options.preset.id = "original"
    THEN [preset |-> options.preset.id, imgWidth |-> DblFromInt(image[1]),
          imgHeight |-> DblFromInt(image[2]),
          canvasWidth |-> canvasWidth, canvasHeight |-> canvasHeight, scale |-> scale,
          scaledWidth |-> DblFromInt(image[1]), scaledHeight |-> DblFromInt(image[2]),
          x |-> DblFromInt(0), y |-> DblFromInt(0)]
    ELSE [preset |-> options.preset.id, imgWidth |-> DblFromInt(image[1]),
          imgHeight |-> DblFromInt(image[2]),
          canvasWidth |-> canvasWidth, canvasHeight |-> canvasHeight, scale |-> scale,
          scaledWidth |-> DblMul(DblFromInt(image[1]), scale),
          scaledHeight |-> DblMul(DblFromInt(image[2]), scale),
          x |-> DblDiv(DblSub(canvasWidth, DblMul(DblFromInt(image[1]), scale)), DblFromInt(2)),
          y |-> DblDiv(DblSub(canvasHeight, DblMul(DblFromInt(image[2]), scale)), DblFromInt(2))]

\* No canvas yet: createFormattedImage makes its own.
InitFormat ==
    /\ width = 0
    /\ height = 0
    /\ canvasPixels = Canvas(0, 0, 0)
    /\ data = canvasPixels
    /\ originalData = canvasPixels
    /\ filters = defaultFilters
    /\ pc = "idle"
    /\ calls = 0
    /\ formatted = NotFormatted
    /\ InitApp

\* createFormattedImage(image, options, filters) up to ctx.drawImage: the
\* canvas is sized and the image placed.  The pixels the browser draws are
\* not part of the source; the processor run on them is the subject of the
\* specifications above.
createFormattedImage(image, options) ==
    /\ pc = "idle"
    /\ formatted' = Placement(image, options, CanvasWidth(image, options),
                              CanvasHeight(image, options), Scale(image, options))
    /\ pc' = "drawn"
    /\ UNCHANGED <<width, height, canvasPixels, originalData, data, filters, calls, appVars>>

NextFormat ==
    \E image \in ImageSizes, i \in DOMAIN formatPresets :
        createFormattedImage(image, FormatOptionsOf(formatPresets[i]))

SpecFormat == InitFormat /\ [][NextFormat]_vars

(***************************************************************************)
(* createFormattedImage: the pixels of a padded canvas                     *)
(*                                                                         *)
(* Small canvases stand for the canvases of the presets.  The layouts are  *)
(* those where x, y, scaledWidth and scaledHeight are whole numbers, so    *)
(* that drawImage covers whole pixels; the image is a photo, opaque.       *)
(***************************************************************************)

\* The longer side of a padded canvas, and its shorter side.
MaxPadLength == 5
PadBreadth == 3

\* options.backgroundColor as <<R, G, B>>: white, black and light blue of
\* BackgroundColorPicker.
BackgroundColors == { <<255, 255, 255>>, <<0, 0, 0>>, <<219, 234, 254>> }

\* The colours of the photos drawn on the canvas.
PhotoPalette ==
    << <<200, 100, 52, 255>>, <<12, 60, 250, 255>>, <<128, 128, 128, 255>>, <<0, 0, 0, 255>> >>

\* Mutant: the background is not filled; the canvas stays transparent black.
FillRectNone(w, h, bg) == [k \in 0..(4 * w * h - 1) |-> 0]

\* ctx.fillStyle = options.backgroundColor; ctx.fillRect(0, 0, canvasWidth,
\* canvasHeight) on the new canvas: every pixel is the colour, opaque.
FillRect(w, h, bg) == [k \in 0..(4 * w * h - 1) |-> IF k % 4 = 3 THEN 255 ELSE bg[(k % 4) + 1]]

\* Pixel p of a canvas w wide lies in the rectangle the image is drawn into.
InImage(p, w, at) ==
    /\ (p % w) >= at.x /\ (p % w) < at.x + at.scaledWidth
    /\ (p \div w) >= at.y /\ (p \div w) < at.y + at.scaledHeight

\* ctx.drawImage(image, x, y, scaledWidth, scaledHeight) on canvas d, w wide:
\* the pixels of the rectangle take the colours of the photo.
DrawImage(d, w, at, seed) ==
    [k \in DOMAIN d |->
        IF InImage(k \div 4, w, at)
        THEN PhotoPalette[(((k \div 4) + seed) % Len(PhotoPalette)) + 1][(k % 4) + 1]
        ELSE d[k]]

\* scaledWidth, scaledHeight, x and y (lines 63-69) for a canvas cw x ch and
\* an image that fills it in one dimension and is side wide or high in the
\* other.
Centred(cw, ch, sw, sh, bg) ==
    [preset |-> "padded", canvasWidth |-> cw, canvasHeight |-> ch,
     scaledWidth |-> sw, scaledHeight |-> sh,
     x |-> (cw - sw) \div 2, y |-> (ch - sh) \div 2, backgroundColor |-> bg]

\* The placements with whole pixels: bars left and right, or above and below.
PaddedLayouts ==
    { Centred(cw, PadBreadth, sw, PadBreadth, bg) :
          cw \in 1..MaxPadLength, sw \in 1..MaxPadLength, bg \in BackgroundColors } \cup
    { Centred(PadBreadth, ch, PadBreadth, sh, bg) :
          ch \in 1..MaxPadLength, sh \in 1..MaxPadLength, bg \in BackgroundColors }

\* The parameter sets applied to padded canvases.
PadInputs ==
    { defaultFilters, With("grayscale", 100), With("brightness", 150), With("sepia", 100),
      With("vignette", 100), With("clarify", 100), With("vintage", 100),
      [defaultFilters EXCEPT !["vignette"] = 100, !["hdr"] = 100, !["clarify"] = 100] }

\* createFormattedImage up to new AdvancedFilterProcessor(canvas): the canvas
\* is filled with the background colour, the image is drawn, and the
\* processor holds the pixels of the whole canvas.
InitPadded ==
    /\ formatted \in {at \in PaddedLayouts :
                         /\ at.scaledWidth <= at.canvasWidth
                         /\ at.scaledHeight <= at.canvasHeight
                         /\ (at.canvasWidth - at.scaledWidth) % 2 = 0
                         /\ (at.canvasHeight - at.scaledHeight) % 2 = 0}
    /\ width = formatted.canvasWidth
    /\ height = formatted.canvasHeight
    /\ \E seed \in Seeds :
           canvasPixels = DrawImage(FillRect(width, height, formatted.backgroundColor),
                                    width, formatted, seed)
    /\ data = canvasPixels
    /\ originalData = canvasPixels
    /\ filters = defaultFilters
    /\ pc = "constructed"
    /\ calls = 0
    /\ InitApp

NextPadded == \E f \in PadInputs : pc = "constructed" /\ applyAdvancedFilters(f)

SpecPadded == InitPadded /\ [][NextPadded]_vars

(***************************************************************************)
(* App, BulkProcessor, SquareFormatter, FilterEditor, MobilePhotoEditor    *)
(*                                                                         *)
(* A handler runs with the render and the effects that follow it as one    *)
(* step: React commits the state updates of a handler and flushes the      *)
(* effects of that render before it handles the next event.  What runs     *)
(* later is the part of processImage and of processCurrentImage after      *)
(* await loadImageFromFile: each run in flight is an entry of inflight     *)
(* with the props its closure captured, and the loads complete in any      *)
(* order.                                                                  *)
(***************************************************************************)

\* The images ever uploaded, and the runs in flight at one time.
MaxUploads == 2
MaxInflight == 3

IdsOf(imgs) == {imgs[i].id : i \in DOMAIN imgs}

ImageOf(imgs, id) == imgs[CHOOSE i \in DOMAIN imgs : imgs[i].id = id]

\* images[currentImageIndex] || null; null has id 0.
CurrentImage(imgs, index) ==
    IF (index + 1) \in DOMAIN imgs THEN imgs[index + 1]
    ELSE [id |-> 0, filters |-> defaultFilters]

\* img[name], a field never written reading as no URL.
Get(img, name) == IF name \in DOMAIN img THEN img[name] ELSE NoUrl

\* { ...img, ...updates }
Merge(img, updates) ==
    [n \in (DOMAIN img) \cup (DOMAIN updates) |->
        IF n \in DOMAIN updates THEN updates[n] ELSE img[n]]

\* Mutant: an update for an id the list does not hold adds the image.
handleUpdateImageUpsert(imgs, id, updates) ==
    IF id \in IdsOf(imgs)
    THEN [i \in DOMAIN imgs |-> IF imgs[i].id = id THEN Merge(imgs[i], updates) ELSE imgs[i]]
    ELSE Append(imgs, Merge([id |-> id, filters |-> defaultFilters], updates))

\* prev.map(img => img.id === id ? { ...img, ...updates } : img)
handleUpdateImage(imgs, id, updates) ==
    [i \in DOMAIN imgs |-> IF imgs[i].id = id THEN Merge(imgs[i], updates) ELSE imgs[i]]

\* prev.filter(img => img.id !== id)
handleRemoveImage(imgs, id) ==
    LET Other(img) == img.id # id
    IN  SelectSeq(imgs, Other)

\* The effect on [globalFilters]: prev.map(img => ({ ...img, filters: { ...globalFilters } }))
GlobalFiltersEffect(imgs, g) ==
    [i \in DOMAIN imgs |-> [imgs[i] EXCEPT !.filters = g]]

\* FilterEditor.handleFilterChange: { ...filters, [key]: value }
handleFilterChange(f, key, value) ==
    [n \in (DOMAIN f) \cup {key} |-> IF n = key THEN value ELSE f[n]]

\* FilterEditor.resetFilters: the literal handed to onChange.
resetFilters ==
    [grayscale |-> 0, sepia |-> 0, brightness |-> 100, contrast |-> 100,
     saturation |-> 100, hue |-> 0, blur |-> 0, sharpen |-> 0, vignette |-> 0,
     temperature |-> 0, vintage |-> 0, drama |-> 0, clarify |-> 0, hdr |-> 0,
     lomo |-> 0, cross |-> 0, pinhole |-> 0, kodachrome |-> 0, technicolor |-> 0,
     polaroid |-> 0]

\* The keys of FilterEditor's presetFilters and of resetPresets.
presetFilters ==
    {"vintage", "drama", "lomo", "cross", "pinhole", "kodachrome", "technicolor", "polaroid"}

\* The keys of MobilePhotoEditor's quickFilters.
quickFilters == {"vintage", "drama", "lomo", "polaroid"}

\* Mutant: the preset is set and the other presets are left as they are.
applyPresetKeep(f, presetKey) ==
    [n \in (DOMAIN f) \cup {presetKey} |-> IF n = presetKey THEN 70 ELSE f[n]]

\* FilterEditor.applyPreset: { ...filters, ...resetPresets, [presetKey]: 70 }
applyPreset(f, presetKey) ==
    [n \in (DOMAIN f) \cup presetFilters \cup {presetKey} |->
        IF n = presetKey THEN 70
        ELSE IF n \in presetFilters THEN 0
        ELSE f[n]]

\* MobilePhotoEditor.applyQuickFilter: { ...filters, vintage: 0, ...,
\* polaroid: 0, [filterKey]: 70 }
applyQuickFilter(f, filterKey) ==
    [n \in (DOMAIN f) \cup
           {"vintage", "drama", "lomo", "cross", "pinhole", "kodachrome",
            "technicolor", "polaroid"} \cup {filterKey} |->
        IF n = filterKey THEN 70
        ELSE IF n \in {"vintage", "drama", "lomo", "cross", "pinhole", "kodachrome",
                       "technicolor", "polaroid"} THEN 0
        ELSE f[n]]

\* MobilePhotoEditor is mounted while the list holds an image; its controls
\* are rendered while currentImage is not null.
MobileShown == Len(images) > 0 /\ CurrentImage(images, mobile.currentImageIndex).id # 0

\* The runs of inflight after MobilePhotoEditor has unmounted: what its runs
\* set on the component is discarded.
Unmounted(runs) ==
    [k \in DOMAIN runs |->
        IF runs[k].who = "mobile" THEN [runs[k] EXCEPT !.who = "unmounted"] ELSE runs[k]]

\* The runs the SquareFormatter cards start in the render of imgs and
\* options: a card's effect calls processImage when the card mounts and when
\* filtersKey or formatKey differs from the render before.
CardRuns(imgs, options) ==
    LET run(i) == [who |-> "card", id |-> imgs[i].id, options |-> options,
                   filters |-> imgs[i].filters]
        Changed(r) == \/ r.id \notin IdsOf(images)
                      \/ r.options # formatOptions
                      \/ r.filters # ImageOf(images, r.id).filters
    IN  SelectSeq([i \in DOMAIN imgs |-> run(i)], Changed)

\* The runs MobilePhotoEditor starts in the render of imgs, g, options and
\* its state mob: its effect calls processCurrentImage when the editor mounts
\* and when currentImage?.id, formatKey or filtersKey differs from the render
\* before, and processCurrentImage returns at once without a current image
\* or with isProcessing set.
MobileRuns(imgs, g, options, mob) ==
    LET cur == CurrentImage(imgs, mob.currentImageIndex)
        changed == \/ Len(images) = 0
                   \/ cur.id # CurrentImage(images, mobile.currentImageIndex).id
                   \/ options # formatOptions
                   \/ g # globalFilters
    IN  IF Len(imgs) > 0 /\ changed /\ cur.id # 0 /\ ~mob.isProcessing
        THEN << [who |-> "mobile", id |-> cur.id, options |-> options, filters |-> g] >>
        ELSE << >>

\* The render that follows a handler and the effects of that render.  imgs,
\* g, options, cds and mob are the state the handler has set, runs the runs
\* still in flight, op the handler.
Commit(imgs, g, options, cds, mob, runs, op) ==
    /\ images' = imgs
    /\ globalFilters' = g
    /\ formatOptions' = options
    /\ cards' = [id \in IdsOf(imgs) |-> IF id \in DOMAIN cds THEN cds[id] ELSE NoUrl]
    /\ mobile' = IF Len(imgs) = 0 THEN MobileMounted
                 ELSE IF MobileRuns(imgs, g, options, mob) # << >>
                 THEN [mob EXCEPT !.isProcessing = TRUE]
                 ELSE mob
    /\ inflight' = (IF Len(imgs) = 0 THEN Unmounted(runs) ELSE runs)
                       \o MobileRuns(imgs, g, options, mob) \o CardRuns(imgs, options)
    /\ Len(inflight') <= MaxInflight
    /\ lastOp' = op
    /\ UNCHANGED engineVars

\* App.handleImagesSelected(files) with n files.
handleImagesSelected(n) ==
    /\ nextId + n - 1 <= MaxUploads
    /\ nextId' = nextId + n
    /\ Commit(images \o [i \in 1..n |-> [id |-> nextId + i - 1, filters |-> defaultFilters]],
              globalFilters, formatOptions, cards, mobile, inflight,
              [op |-> "handleImagesSelected", id |-> nextId, key |-> "none"])

\* setGlobalFilters(f), the onChange of FilterEditor and the onFilterChange
\* of MobilePhotoEditor, with the effect on [globalFilters] it triggers.
setGlobalFilters(f, op) ==
    /\ nextId' = nextId
    /\ Commit(GlobalFiltersEffect(images, f), f, formatOptions, cards, mobile, inflight, op)

\* setFormatOptions(prev => ({ ...prev, preset, aspectRatio })), the onChange
\* of FormatPresetSelector and the onFormatChange of MobilePhotoEditor.
setFormatOptions(preset) ==
    /\ nextId' = nextId
    /\ Commit(images, globalFilters, [formatOptions EXCEPT !.preset = preset], cards, mobile,
              inflight, [op |-> "setFormatOptions", id |-> 0, key |-> preset])

\* A thumbnail of MobilePhotoEditor: setCurrentImageIndex(index).
setCurrentImageIndex(index) ==
    /\ MobileShown
    /\ Len(images) > 1
    /\ index \in 0..(Len(images) - 1)
    /\ nextId' = nextId
    /\ Commit(images, globalFilters, formatOptions, cards,
              [mobile EXCEPT !.currentImageIndex = index], inflight,
              [op |-> "setCurrentImageIndex", id |-> index, key |-> "none"])

\* MobilePhotoEditor.handleRemoveImage, its button shown for two images or
\* more.
MobileHandleRemoveImage ==
    /\ MobileShown
    /\ Len(images) > 1
    /\ nextId' = nextId
    /\ Commit(handleRemoveImage(images, CurrentImage(images, mobile.currentImageIndex).id),
              globalFilters, formatOptions, cards,
              IF mobile.currentImageIndex >= Len(images) - 1
              THEN [mobile EXCEPT !.currentImageIndex =
                        IF Len(images) - 2 > 0 THEN Len(images) - 2 ELSE 0]
              ELSE mobile,
              inflight,
              [op |-> "MobileHandleRemoveImage",
               id |-> CurrentImage(images, mobile.currentImageIndex).id, key |-> "none"])

\* The remove button of the SquareFormatter card of image id: onRemove(id).
onRemove(id) ==
    /\ id \in IdsOf(images)
    /\ nextId' = nextId
    /\ Commit(handleRemoveImage(images, id), globalFilters, formatOptions, cards, mobile,
              inflight, [op |-> "onRemove", id |-> id, key |-> "none"])

\* App.clearAllImages, its button shown while the list holds an image.
clearAllImages ==
    /\ Len(images) > 0
    /\ nextId' = nextId
    /\ Commit(<< >>, globalFilters, formatOptions, cards, mobile, inflight,
              [op |-> "clearAllImages", id |-> 0, key |-> "none"])

\* s without its k-th entry.
Without1(s, k) == SubSeq(s, 1, k - 1) \o SubSeq(s, k + 1, Len(s))

\* SquareFormatter.processImage after await loadImageFromFile, for run k:
\* setPreviewUrl(url), a card that has unmounted ignoring it, and
\* onUpdate(id, { processed: url, canvas }).
processImageResumes(k) ==
    /\ k \in DOMAIN inflight
    /\ inflight[k].who = "card"
    /\ nextId' = nextId
    /\ LET run == inflight[k]
           url == Rendering(run.id, run.options, run.filters)
       IN  Commit(handleUpdateImage(images, run.id, [processed |-> url, canvas |-> url]),
                  globalFilters, formatOptions,
                  [id \in DOMAIN cards |-> IF id = run.id THEN url ELSE cards[id]],
                  mobile, Without1(inflight, k),
                  [op |-> "processImageResumes", id |-> run.id, key |-> "none"])

\* MobilePhotoEditor.processCurrentImage after await loadImageFromFile, for
\* run k: setPreviewUrl(url), onUpdateImage(id, { processed: url, canvas,
\* filters }) and setIsProcessing(false), an editor that has unmounted
\* ignoring the two state setters.
processCurrentImageResumes(k) ==
    /\ k \in DOMAIN inflight
    /\ inflight[k].who \in {"mobile", "unmounted"}
    /\ nextId' = nextId
    /\ LET run == inflight[k]
           url == Rendering(run.id, run.options, run.filters)
       IN  Commit(handleUpdateImage(images, run.id,
                                    [processed |-> url, canvas |-> url, filters |-> run.filters]),
                  globalFilters, formatOptions, cards,
                  IF run.who = "mobile"
                  THEN [mobile EXCEPT !.previewUrl = url, !.isProcessing = FALSE]
                  ELSE mobile,
                  Without1(inflight, k),
                  [op |-> "processCurrentImageResumes", id |-> run.id, key |-> "none"])

\* The format presets the user switches between.
AppPresets == {"instagram-square", "original"}

\* <<key, value>> of the slider moves of FilterEditor.
AppSliderInputs == {<<"grayscale", 0>>, <<"grayscale", 100>>}

\* FilterEditor's sliders: onChange(handleFilterChange(key, value)); a slider
\* reports a value other than the one it shows.
FilterSlider(inputs) ==
    \E kv \in inputs :
        /\ globalFilters[kv[1]] # kv[2]
        /\ setGlobalFilters(handleFilterChange(globalFilters, kv[1], kv[2]),
                            [op |-> "handleFilterChange", id |-> kv[2], key |-> kv[1]])

\* The app with uploads, slider moves, format changes, thumbnails, removals
\* and the completion of runs.
NextApp ==
    \/ \E n \in 1..2 : handleImagesSelected(n)
    \/ FilterSlider(AppSliderInputs)
    \/ \E index \in 0..(MaxUploads - 1) : setCurrentImageIndex(index)
    \/ MobileHandleRemoveImage
    \/ \E id \in 1..MaxUploads : onRemove(id)
    \/ clearAllImages
    \/ \E k \in 1..MaxInflight : processImageResumes(k)
    \/ \E k \in 1..MaxInflight : processCurrentImageResumes(k)

SpecApp == InitFormat /\ [][NextApp]_vars

\* The app with uploads, thumbnails, removals and the completion of runs,
\* the filters and the format left as they are.
NextRemoval ==
    \/ \E n \in 1..2 : handleImagesSelected(n)
    \/ \E index \in 0..(MaxUploads - 1) : setCurrentImageIndex(index)
    \/ MobileHandleRemoveImage
    \/ \E id \in 1..MaxUploads : onRemove(id)
    \/ clearAllImages
    \/ \E k \in 1..MaxInflight : processImageResumes(k)
    \/ \E k \in 1..MaxInflight : processCurrentImageResumes(k)

SpecRemoval == InitFormat /\ [][NextRemoval]_vars

\* One image in MobilePhotoEditor and in its card: slider moves, format
\* changes and the completion of runs.
NextMobile ==
    \/ nextId = 1 /\ handleImagesSelected(1)
    \/ FilterSlider(AppSliderInputs)
    \/ \E preset \in AppPresets : setFormatOptions(preset)
    \/ \E k \in 1..MaxInflight : processImageResumes(k)
    \/ \E k \in 1..MaxInflight : processCurrentImageResumes(k)

\* The load of an image file ends: the browser fires onload for an Image
\* whose src is the object URL of a file it can decode, so a run in flight
\* resumes.
Resumes ==
    \E k \in 1..MaxInflight : processImageResumes(k) \/ processCurrentImageResumes(k)

SpecMobileFair == InitFormat /\ [][NextMobile]_vars /\ WF_vars(Resumes)

\* <<key, value>> of the slider moves of the filter panels.
PanelSliderInputs == {<<"grayscale", 100>>, <<"brightness", 150>>}
QuickSliderInputs == {<<"vintage", 30>>, <<"vintage", 0>>}

\* The filter panels on one image: FilterEditor's sliders, presets and reset,
\* MobilePhotoEditor's quick filters and their sliders.
NextPanel ==
    \/ nextId = 1 /\ handleImagesSelected(1)
    \/ inflight = << >> /\ FilterSlider(PanelSliderInputs)
    \/ \E preset \in AppPresets : inflight = << >> /\ setFormatOptions(preset)
    \/ \E presetKey \in presetFilters :
           /\ inflight = << >>
           /\ setGlobalFilters(applyPreset(globalFilters, presetKey),
                            [op |-> "applyPreset", id |-> 0, key |-> presetKey])
    \/ inflight = << >> /\ setGlobalFilters(resetFilters, [op |-> "resetFilters", id |-> 0, key |-> "none"])
    \/ \E filterKey \in quickFilters :
           /\ MobileShown /\ inflight = << >>
           /\ setGlobalFilters(applyQuickFilter(globalFilters, filterKey),
                               [op |-> "applyQuickFilter", id |-> 0, key |-> filterKey])
    \/ \E kv \in QuickSliderInputs :
           /\ MobileShown /\ inflight = << >>
           /\ globalFilters[kv[1]] # kv[2]
           /\ setGlobalFilters(handleFilterChange(globalFilters, kv[1], kv[2]),
                               [op |-> "quickFilterSlider", id |-> kv[2], key |-> kv[1]])
    \/ \E k \in 1..MaxInflight : processImageResumes(k)
    \/ \E k \in 1..MaxInflight : processCurrentImageResumes(k)

SpecPanel == InitFormat /\ [][NextPanel]_vars

(***************************************************************************)
(* Properties                                                              *)
(***************************************************************************)

Returned == pc = "returned"

PixelIndexes == 0..(width * height - 1)

\* <<R, G, B>> of pixel p of buffer d.
RGB(d, p) == <<d[4 * p], d[4 * p + 1], d[4 * p + 2]>>

InByteRange(d) == \A k \in DOMAIN d : d[k] \in 0..255

\* C1: applied with every parameter at its neutral value (brightness =
\* contrast = saturation = 100, every other field 0), applyAdvancedFilters
\* leaves the working buffer byte-identical to the original snapshot.
C1_NeutralIsNoOp ==
    (Returned /\ filters = defaultFilters) => data = originalData

C1_Witness ==
    /\ Returned
    /\ filters = defaultFilters
    /\ width = 3 /\ height = 3
    /\ RGB(data, 0) = <<200, 100, 52>>

\* C2: whatever the parameter set and whichever of the eight looks, the
\* basic stage, vignette, hdr and clarify ran, the alpha byte 4p+3 of every
\* pixel of the output is the alpha byte of the input.
C2_AlphaPreserved ==
    \A p \in PixelIndexes :
        /\ data[4 * p + 3] = originalData[4 * p + 3]
        /\ canvasPixels[4 * p + 3] = originalData[4 * p + 3]

C2_Witness ==
    /\ Returned
    /\ DOMAIN filters = FieldNames
    /\ \A n \in {"vintage", "drama", "lomo", "cross", "pinhole", "kodachrome",
                 "technicolor", "polaroid", "vignette", "hdr", "clarify"} : filters[n] = 100
    /\ width = 3 /\ height = 3
    /\ data[4 * 4 + 3] = 77
    /\ RGB(data, 4) # RGB(originalData, 4)

\* C3: one run executes the preset stage, then the basic tonal stage, then
\* vignette, then hdr, then clarify, each on the buffer the one before left:
\* the output is that composition over the original snapshot.
C3_StageOrder ==
    Returned =>
        LET presets == applyPresetFilters(originalData, width, height, filters)
            basic == applyBasicFilters(presets, filters)
            vignette == Effect("vignette", basic, width, height, filters)
            hdr == Effect("hdr", vignette, width, height, filters)
            clarify == Effect("clarify", hdr, width, height, filters)
        IN  data = clarify

\* A run in which the order of the stages shows: the looks after the basic
\* stage would have given another buffer.
C3_Witness ==
    /\ Returned
    /\ DOMAIN filters = FieldNames
    /\ filters["technicolor"] = 100 /\ filters["brightness"] = 150 /\ filters["vignette"] = 100
    /\ data # ProcessedBasicFirst(originalData, originalData, width, height, filters)
    /\ data # originalData

\* Look number i of the declared order on buffer d, skipped at intensity 0.
C4_Look(i, d) ==
    LET name == <<"vintage", "drama", "lomo", "cross", "pinhole", "kodachrome",
                  "technicolor", "polaroid">>[i]
        v == Frac(filters[name], 100)
    IN  IF filters[name] = 0 THEN d
        ELSE CASE i = 1 -> applyVintage(d, v)
               [] i = 2 -> applyDrama(d, v)
               [] i = 3 -> applyLomo(d, width, height, v)
               [] i = 4 -> applyCrossProcess(d, v)
               [] i = 5 -> applyPinhole(d, width, height, v)
               [] i = 6 -> applyKodachrome(d, v)
               [] i = 7 -> applyTechnicolor(d, v)
               [] i = 8 -> applyPolaroid(d, v)

\* Only the eight looks are away from neutral (no field is absent).
OnlyLooks(f) ==
    /\ DOMAIN f = FieldNames
    /\ \A n \in FieldNames \ {PresetNames[i] : i \in 1..Len(PresetNames)} :
          f[n] = defaultFilters[n]

\* C4: the preset stage is the composition vintage, drama, lomo, cross,
\* pinhole, kodachrome, technicolor, polaroid, each look applied to the
\* bytes the one before stored, a look of intensity 0 changing nothing.
C4_PresetComposition ==
    (Returned /\ OnlyLooks(filters)) =>
        data = C4_Look(8, C4_Look(7, C4_Look(6, C4_Look(5,
                   C4_Look(4, C4_Look(3, C4_Look(2, C4_Look(1, originalData))))))))

\* Two looks are active, the others are skipped, and the other order of the
\* two would have given another buffer.
C4_Witness ==
    /\ Returned
    /\ OnlyLooks(filters)
    /\ filters["vintage"] = 100 /\ filters["drama"] = 100 /\ filters["lomo"] = 0
    /\ data # LooksUpTo(PresetOrderSwapped, 8, originalData, width, height, filters)

OnlyHue(f) ==
    /\ DOMAIN f = FieldNames
    /\ f["hue"] # 0 /\ f["hue"] \in -180..180
    /\ f = With("hue", f["hue"])

Chromatic(rgb) == ~(rgb[1] = rgb[2] /\ rgb[2] = rgb[3])

\* C6: with every other field neutral, hue = 0 leaves every pixel unchanged
\* and, for every chromatic pixel, hue = 360 gives what hue = 0 gives.
C6_HueFullTurn ==
    /\ (Returned /\ filters = With("hue", 0)) => data = originalData
    /\ (Returned /\ filters = With("hue", 360)) =>
          \A p \in PixelIndexes :
              Chromatic(RGB(originalData, p)) =>
                  RGB(data, p) =
                      RGB(Processed(originalData, originalData, width, height, With("hue", 0)), p)

RatRGB(rgb) == <<Rat(rgb[1]), Rat(rgb[2]), Rat(rgb[3])>>

\* C7: for a chromatic pixel of bytes and an angle in -180..180 the hue
\* helper returns channels whose maximum and minimum are those of its input.
C7_HueKeepsScale ==
    (Returned /\ OnlyHue(filters)) =>
        \A p \in PixelIndexes :
            LET in == RatRGB(RGB(originalData, p))
                out == hueShift(in, Field(filters, "hue"))
            IN  Chromatic(RGB(originalData, p)) =>
                    /\ Max3(out[1], out[2], out[3]) = Max3(in[1], in[2], in[3])
                    /\ Min3(out[1], out[2], out[3]) = Min3(in[1], in[2], in[3])

AllWhite(d) == \A k \in DOMAIN d : d[k] = 255

\* C8 as claimed: sepia = 100, everything else neutral, turns every pixel of
\* an all-white image into R = 255, G = 255, B = 255.
C8_SepiaWhiteStaysWhite ==
    (Returned /\ filters = With("sepia", 100) /\ AllWhite(originalData)) =>
        \A p \in PixelIndexes : RGB(data, p) = <<255, 255, 255>>

\* C8, amended: sepia = 100, everything else neutral, turns every pixel of
\* an all-white image into R = 255, G = 255, B = 239 (tb = 0.937 * 255 =
\* 238.935 is below 255) and keeps alpha 255.
C8_SepiaWhite ==
    (Returned /\ filters = With("sepia", 100) /\ AllWhite(originalData)) =>
        \A p \in PixelIndexes : RGB(data, p) = <<255, 255, 239>> /\ data[4 * p + 3] = 255

C8_Witness ==
    /\ Returned
    /\ filters = With("sepia", 100)
    /\ AllWhite(originalData)
    /\ width = 2 /\ height = 2
    /\ RGB(data, 3) = <<255, 255, 239>>

\* f with every absent field set to its neutral value.
Completed(f) ==
    [n \in FieldNames |-> IF n \in DOMAIN f THEN f[n] ELSE defaultFilters[n]]

\* C9: a parameter set lacking a field is processed as if the field held
\* its neutral value (100 for brightness, contrast, saturation, else 0).
C9_MissingIsNeutral ==
    (Returned /\ DOMAIN filters # FieldNames) =>
        data = Processed(originalData, originalData, width, height, Completed(filters))

\* C10: after any sequence of applications the working buffer is what one
\* application of the last parameter set to the original snapshot gives;
\* nothing of an earlier application is left in it.
C10_NoCarryOver ==
    Returned =>
        /\ data = Processed(originalData, originalData, width, height, filters)
        /\ canvasPixels = data

\* A third application, of the neutral set, after applications that had
\* changed the buffer: the buffer is the original again.
C10_Witness ==
    /\ calls = 3
    /\ filters = defaultFilters
    /\ data = originalData
    /\ width = 2 /\ height = 2
    /\ ~AllWhite(originalData)

\* C11: in every reachable state, after any number of applications with any
\* parameters, originalData is the canvas captured at construction, and no
\* application changes it: it is not the array the stages write.
C11_SnapshotFrozen ==
    /\ [](\E seed \in Seeds : originalData = Canvas(width, height, seed))
    /\ [][originalData' = originalData]_vars

\* Two applications have written the working buffer, which now differs from
\* the snapshot.
C11_Witness ==
    /\ calls = 2
    /\ data # originalData
    /\ originalData = Canvas(3, 3, 1)

\* The buffer the clarify stage of the run found: the original snapshot after
\* the presets, the basic stage, vignette and hdr.
ClarifyInput ==
    EffectsUpTo(EffectOrder, 2,
                applyBasicFilters(applyPresetFilters(originalData, width, height, filters), filters),
                width, height, filters)

ClarifyRan == Returned /\ "clarify" \in DOMAIN filters /\ filters["clarify"] > 0

\* Pixel p is not in row 0, row height-1, column 0 or column width-1.
Interior(p) ==
    /\ p % width \in 1..(width - 2)
    /\ p \div width \in 1..(height - 2)

\* The sum of channel byte k over the eight neighbours of its pixel in buffer in.
NeighbourSum(in, k) ==
    in[k - 4 * width - 4] + in[k - 4 * width] + in[k - 4 * width + 4] +
    in[k - 4] + in[k + 4] +
    in[k + 4 * width - 4] + in[k + 4 * width] + in[k + 4 * width + 4]

\* C12: every R, G, B byte of every interior pixel the clarify stage leaves
\* is center + (center - mean of the 8 neighbours) * intensity, clamped and
\* stored, over the bytes all nine pixels had before the stage began.
C12_ClarifyFrozen ==
    ClarifyRan =>
        \A k \in DOMAIN data :
            (Interior(k \div 4) /\ k % 4 < 3) =>
                data[k] =
                    ToUint8Clamp(Clamp(
                        Rat(ClarifyInput[k]) ++
                        ((Rat(ClarifyInput[k]) -- Frac(NeighbourSum(ClarifyInput, k), 8)) **
                         Frac(filters["clarify"], 100))))

\* Two interior pixels side by side were both sharpened: the second was
\* computed although its left neighbour had already been written.
C12_Witness ==
    /\ Returned
    /\ filters = With("clarify", 100)
    /\ width = 4 /\ height = 3
    /\ RGB(data, 5) # RGB(originalData, 5)
    /\ RGB(data, 6) # RGB(originalData, 6)

\* C13: whatever the size of the image (widths and heights below 3
\* included) and the clarify intensity, the clarify stage leaves every byte
\* of row 0, row height-1, column 0 and column width-1 as it found it, and
\* with clarify = 0 it leaves every byte as it found it.
C13_ClarifyBorders ==
    Returned =>
        /\ \A k \in DOMAIN data : ~Interior(k \div 4) => data[k] = ClarifyInput[k]
        /\ ("clarify" \in DOMAIN filters /\ filters["clarify"] = 0) => data = ClarifyInput

\* The stage ran on a 3 x 3 image and sharpened the centre pixel; the eight
\* pixels around it are border pixels.
C13_Witness ==
    /\ Returned
    /\ filters = With("clarify", 50)
    /\ width = 3 /\ height = 3
    /\ RGB(data, 4) # RGB(originalData, 4)
    /\ RGB(data, 3) = RGB(originalData, 3)

\* C14: with grayscale = 100 and every other field neutral, every output
\* pixel has R = G = B, the integer nearest to 0.299 R + 0.587 G + 0.114 B of
\* the input pixel (at most 1/2 away from it).
C14_GrayscaleFull ==
    (Returned /\ filters = With("grayscale", 100)) =>
        \A p \in PixelIndexes :
            LET in == RGB(originalData, p)
                out == RGB(data, p)
            IN  /\ out[1] = out[2] /\ out[2] = out[3]
                /\ 2 * IAbs(1000 * out[1] - (299 * in[1] + 587 * in[2] + 114 * in[3])) <= 1000

\* The chromatic pixel (200, 100, 52), of luminance 124.428, came out gray.
C14_Witness ==
    /\ Returned
    /\ filters = With("grayscale", 100)
    /\ RGB(originalData, 0) = <<200, 100, 52>>
    /\ RGB(data, 0) = <<124, 124, 124>>

\* No look and no spatial effect is active (no field is absent): the run is
\* the basic tonal stage alone.
OnlyBasic(f) ==
    /\ DOMAIN f = FieldNames
    /\ \A n \in {"vintage", "drama", "lomo", "cross", "pinhole", "kodachrome",
                 "technicolor", "polaroid", "vignette", "hdr", "clarify"} : f[n] = 0

\* The seven steps in the declared order, each on the unclamped result of
\* the one before.
C15_Steps(rgb) ==
    LET brightness == BrightnessStep(rgb, filters)
        contrast == ContrastStep(brightness, filters)
        saturation == SaturationStep(contrast, filters)
        temperature == TemperatureStep(saturation, filters)
        hue == HueStep(temperature, filters)
        grayscale == GrayscaleStep(hue, filters)
    IN  SepiaStep(grayscale, filters)

\* C15: the basic tonal stage runs brightness, contrast, saturation,
\* temperature, hue, grayscale, sepia in that order on unclamped values and
\* clamps the three channels once, after the last step, before they are
\* stored; alpha is kept.
C15_BasicOrder ==
    (Returned /\ OnlyBasic(filters)) =>
        \A p \in PixelIndexes :
            LET in == RGB(originalData, p)
                out == C15_Steps(<<Rat(in[1]), Rat(in[2]), Rat(in[3])>>)
            IN  /\ RGB(data, p) = <<ToUint8Clamp(Clamp(out[1])), ToUint8Clamp(Clamp(out[2])),
                                    ToUint8Clamp(Clamp(out[3]))>>
                /\ data[4 * p + 3] = originalData[4 * p + 3]

\* Brightness 200 took a white pixel to 510, contrast and sepia worked on
\* the unclamped value, and blue came out 255; clamped to 255 before sepia
\* it would have come out 239.
C15_Witness ==
    /\ Returned
    /\ filters = [defaultFilters EXCEPT !["brightness"] = 200, !["contrast"] = 50, !["sepia"] = 100]
    /\ RGB(originalData, 0) = <<255, 255, 255>>
    /\ Gt(BrightnessStep(<<Rat(255), Rat(255), Rat(255)>>, filters)[3], Rat(255))
    /\ RGB(data, 0) = <<255, 255, 255>>

\* C16: for every contrast of the slider the denominator 255 * (259 -
\* contrast) is a number other than 0, and for every parameter set within
\* the slider ranges each channel the basic tonal stage writes is a number
\* (not NaN) in [0, 255].
C16_BasicDefined ==
    Returned =>
        /\ ~IsNaN(ContrastDenominator(filters))
        /\ ContrastDenominator(filters) # Rat(0)
        /\ \A p \in PixelIndexes :
               LET written == ClampPixel(BasicPixel(RatRGB(RGB(originalData, p)), filters))
               IN  \A c \in 1..3 :
                       /\ ~IsNaN(written[c])
                       /\ Le(Rat(0), written[c])
                       /\ Le(written[c], Rat(255))

\* Contrast at the end of its slider: the denominator is 255 * 59 and the
\* chromatic pixel was written.
C16_Witness ==
    /\ Returned
    /\ filters = With("contrast", MaxContrast)
    /\ ContrastDenominator(filters) = Rat(15045)
    /\ RGB(originalData, 0) = <<200, 100, 52>>
    /\ RGB(data, 0) # RGB(originalData, 0)

\* Only the named radial look or effect is away from neutral.
OnlyRadial(f, name) ==
    /\ DOMAIN f = FieldNames
    /\ f[name] \in 1..100
    /\ f = With(name, f[name])

InUnit(x) == Le(Rat(0), x) /\ Le(x, Rat(1))

\* C17: for every pixel (x, y) of the image the normalised radial distance
\* d/maxD is in [0, 1] (its square is); hence the pinhole multiplier
\* 1 - (d/maxD)^2 * i and the vignette factor 1 - (d/maxD) * i are in [0, 1]
\* for the intensity of the run, and a run of pinhole alone or of vignette
\* alone leaves no byte above its input or below 0.
C17_RadialFactor ==
    /\ \A p \in PixelIndexes : InUnit(RadialSq(p % width, p \div width, width, height))
    /\ \A name \in {"pinhole", "vignette"} :
           (Returned /\ OnlyRadial(filters, name)) =>
               /\ \A p \in PixelIndexes :
                      LET q == RadialSq(p % width, p \div width, width, height)
                          i == Frac(filters[name], 100)
                      IN  /\ InUnit(Rat(1) -- (q ** i))
                          /\ InUnit(q ** (i ** i))
               /\ \A k \in DOMAIN data : data[k] >= 0 /\ data[k] <= originalData[k]

\* Vignette at 100 on a 3 x 3 image: the corner pixel is at distance maxD
\* (factor 0) and came out black, the centre pixel was darkened but not to 0.
C17_Witness ==
    /\ Returned
    /\ filters = With("vignette", 100)
    /\ width = 3 /\ height = 3
    /\ RadialSq(0, 0, width, height) = Rat(1)
    /\ RGB(originalData, 0) = <<200, 100, 52>>
    /\ RGB(data, 0) = <<0, 0, 0>>
    /\ data[16] < originalData[16] /\ data[16] > 0

\* The pixel at (width/2, height/2), when both are whole numbers.
CentrePixel == (height \div 2) * width + (width \div 2)

\* C18: with vignette = 100 and every other field neutral, a pixel whose
\* coordinates are exactly (width/2, height/2) is at distance 0 and comes out
\* with its R, G, B bytes unchanged.
C18_VignetteCentre ==
    (/\ Returned
     /\ filters = With("vignette", 100)
     /\ width % 2 = 0 /\ height % 2 = 0) =>
        /\ RadialSq(width \div 2, height \div 2, width, height) = Rat(0)
        /\ RGB(data, CentrePixel) = RGB(originalData, CentrePixel)

\* A 2 x 2 image: pixel (1, 1) is the centre and kept its colour, while the
\* pixel at (0, 0) was darkened.
C18_Witness ==
    /\ Returned
    /\ filters = With("vignette", 100)
    /\ width = 2 /\ height = 2
    /\ CentrePixel = 3
    /\ originalData = Canvas(2, 2, 0)
    /\ RGB(data, CentrePixel) = <<255, 255, 255>>
    /\ RGB(data, 0) = <<0, 0, 0>>

\* The canvas after one run of f by a new processor on the canvas holding d.
RunOn(d, f) == Processed(d, d, width, height, f)

\* C19: the vintage look is not idempotent: there is an input image (of the
\* size at hand) for which a run with vintage = 100 on the output of a run
\* with vintage = 100 leaves a buffer other than the output of the single run.
C19_VintageNotIdempotent ==
    \E seed \in Seeds :
        RunOn(RunOn(Canvas(width, height, seed), With("vintage", 100)), With("vintage", 100))
            # RunOn(Canvas(width, height, seed), With("vintage", 100))

\* A white pixel: the first run left blue at 230, the second processor was
\* built on that output and its run left blue at 210.
C19_Witness ==
    /\ pc = "returned"
    /\ calls = 2
    /\ filters = With("vintage", 100)
    /\ originalData = RunOn(Canvas(width, height, 0), With("vintage", 100))
    /\ RGB(originalData, 0) = <<255, 255, 230>>
    /\ RGB(data, 0) = <<255, 255, 210>>

\* The margins the placed image leaves in the canvas, as exact numbers.
LeftMargin == formatted.x

RightMargin == ExactSub(ExactSub(formatted.canvasWidth, formatted.x), formatted.scaledWidth)

TopMargin == formatted.y

BottomMargin == ExactSub(ExactSub(formatted.canvasHeight, formatted.y), formatted.scaledHeight)

\* C20: for a preset other than 'original', createFormattedImage draws the
\* image scaled by one factor, inside the canvas (scaledWidth <= canvasWidth,
\* scaledHeight <= canvasHeight, one of them with equality) and centred
\* (left margin = right margin, top margin = bottom margin, none negative);
\* for 'original' the canvas has the image's size and the image is drawn
\* unscaled at (0, 0).
C20_FitsAndCentred ==
    formatted # NotFormatted =>
        IF formatted.preset = "original"
        THEN /\ formatted.canvasWidth = formatted.imgWidth
             /\ formatted.canvasHeight = formatted.imgHeight
             /\ formatted.scaledWidth = formatted.imgWidth
             /\ formatted.scaledHeight = formatted.imgHeight
             /\ formatted.x = DblZero /\ formatted.y = DblZero
        ELSE /\ formatted.scaledWidth = DblMul(formatted.imgWidth, formatted.scale)
             /\ formatted.scaledHeight = DblMul(formatted.imgHeight, formatted.scale)
             /\ ExactLe(formatted.scaledWidth, formatted.canvasWidth)
             /\ ExactLe(formatted.scaledHeight, formatted.canvasHeight)
             /\ \/ formatted.scaledWidth = formatted.canvasWidth
                \/ formatted.scaledHeight = formatted.canvasHeight
             /\ LeftMargin = RightMargin
             /\ TopMargin = BottomMargin
             /\ ExactLe(DblZero, LeftMargin) /\ ExactLe(DblZero, TopMargin)

\* Only contrast is away from neutral, at a value of its slider.
OnlyContrast(f) ==
    /\ DOMAIN f = FieldNames
    /\ f.contrast \in (0..MaxContrast) \ {100}
    /\ f = With("contrast", f.contrast)

\* The factor the contrast stage applies: it takes 129 to 128 + factor.
ContrastFactorOf(f) == ContrastStep(<<Rat(129), Rat(129), Rat(129)>>, f)[1] -- Rat(128)

\* C25: for every contrast of the slider other than 100 the factor
\* 259 * (c + 255) / (255 * (259 - c)) is >= 1, and 1 only at c = 0:
\* contrast 0 leaves every pixel as it was, and no contrast takes an R, G
\* or B byte closer to 128.
C25_ContrastNeverReduces ==
    (Returned /\ OnlyContrast(filters)) =>
        /\ Le(Rat(1), ContrastFactorOf(filters))
        /\ (ContrastFactorOf(filters) = Rat(1)) <=> (filters.contrast = 0)
        /\ filters.contrast = 0 => data = originalData
        /\ \A k \in DOMAIN data :
               k % 4 # 3 => IAbs(data[k] - 128) >= IAbs(originalData[k] - 128)

\* Contrast 50, below the neutral 100: the pixel (200, 100, 52) moved away
\* from 128 in every channel.
C25_Witness ==
    /\ Returned
    /\ filters = With("contrast", 50)
    /\ Lt(Rat(1), ContrastFactorOf(filters))
    /\ RGB(originalData, 0) = <<200, 100, 52>>
    /\ RGB(data, 0) = <<235, 86, 15>>

\* The parameter set f with sharpen and blur set to sb = <<sharpen, blur>>.
WithSharpenBlur(f, sb) ==
    [n \in (DOMAIN f) \cup {"sharpen", "blur"} |->
        IF n = "sharpen" THEN sb[1] ELSE IF n = "blur" THEN sb[2] ELSE f[n]]

\* <<sharpen, blur>> settings: both neutral, both at the end of their slider.
SharpenBlurSettings == {<<0, 0>>, <<100, 10>>}

\* C29: the output of applyAdvancedFilters does not depend on the sharpen or
\* blur fields: the parameter set of the run with sharpen and blur set to
\* any other values gives the same bytes on the same buffer.
C29_SharpenBlurUnread ==
    Returned =>
        \A sb \in SharpenBlurSettings :
            Processed(originalData, originalData, width, height,
                      WithSharpenBlur(filters, sb)) = data

\* A run with sharpen = 50 on a 3 x 3 canvas of several colours left it as
\* it was, as the run with sharpen 100 and blur 10 would; clarify = 50, the
\* effect that does sharpen, would have changed it.
C29_Witness ==
    /\ Returned
    /\ filters = With("sharpen", 50)
    /\ width = 3 /\ height = 3
    /\ originalData = Canvas(3, 3, 1)
    /\ data = originalData
    /\ Processed(originalData, originalData, width, height,
                 WithSharpenBlur(filters, <<100, 10>>)) = data
    /\ Processed(originalData, originalData, width, height, With("clarify", 50)) # data

(***************************************************************************)
(* The app: runs in flight, the image list, the filter panels              *)
(***************************************************************************)

\* No run for image id is in flight.
Settled(id) == \A k \in DOMAIN inflight : inflight[k].id # id

\* C21: once no run for an image is in flight, the preview of its
\* SquareFormatter card and the canvas stored for it are the rendering of the
\* image with its latest filters and the latest format options: no run that
\* started earlier has overwritten the result of a run that started later.
C21_LatestRunWins ==
    \A i \in DOMAIN images :
        Settled(images[i].id) =>
            /\ cards[images[i].id] =
                   Rendering(images[i].id, formatOptions, images[i].filters)
            /\ Get(images[i], "canvas") =
                   Rendering(images[i].id, formatOptions, images[i].filters)

\* The runs a SquareFormatter card has in flight for image id.
CardRunsOf(runs, id) == {k \in DOMAIN runs : runs[k].who = "card" /\ runs[k].id = id}

\* C23: a filter change that arrives while a run of a card is in flight for
\* an image starts no run of its own for that image.
C23_Debounced ==
    [][\A id \in IdsOf(images) :
          (globalFilters' # globalFilters /\ CardRunsOf(inflight, id) # {}) =>
              Cardinality(CardRunsOf(inflight', id)) <= Cardinality(CardRunsOf(inflight, id))]_vars

\* C24: with no run in flight, every image of the list has the global filter
\* set, whatever uploads and filter changes came before.
C24_AllImagesGlobal ==
    inflight = << >> => \A i \in DOMAIN images : images[i].filters = globalFilters

\* C26: while the list holds an image, currentImageIndex of
\* MobilePhotoEditor is an index of the list.
C26_IndexInRange ==
    Len(images) > 0 =>
        (mobile.currentImageIndex >= 0 /\ mobile.currentImageIndex < Len(images))

\* The images of imgs other than image id, in their order.
Others(imgs, id) ==
    LET Other(img) == img.id # id
    IN  SelectSeq(imgs, Other)

AppFilterValues == {defaultFilters, With("grayscale", 100)}
AppFormatValues == {[preset |-> preset] : preset \in AppPresets}

\* MobilePhotoEditor has a run in flight for its current image that captured
\* other settings than g and o, which are the settings now.
ChangedInFlight(g, o) ==
    /\ MobileShown
    /\ mobile.isProcessing
    /\ globalFilters = g
    /\ formatOptions = o
    /\ \E k \in DOMAIN inflight :
           /\ inflight[k].who = "mobile"
           /\ inflight[k].id = CurrentImage(images, mobile.currentImageIndex).id
           /\ (inflight[k].filters # g \/ inflight[k].options # o)

\* The preview of MobilePhotoEditor is the rendering of its current image
\* with g and o, or the settings are no longer g and o.
RegeneratedOrChanged(g, o) ==
    \/ mobile.previewUrl = Rendering(CurrentImage(images, mobile.currentImageIndex).id, o, g)
    \/ globalFilters # g
    \/ formatOptions # o
    \/ ~MobileShown

\* C22: settings that change while a run of MobilePhotoEditor is in flight
\* lead to a preview rendered with them, unless they change again first.
C22_ChangeNotDropped ==
    \A g \in AppFilterValues : \A o \in AppFormatValues :
        ChangedInFlight(g, o) ~> RegeneratedOrChanged(g, o)

\* g is f with preset k at 70, the seven other presets at 0 and every other
\* field as in f.
PresetApplied(f, g, k) ==
    /\ DOMAIN g = FieldNames
    /\ g[k] = 70
    /\ {n \in presetFilters : g[n] # 0} = {k}
    /\ \A n \in FieldNames \ presetFilters : g[n] = f[n]

\* C28: applyPreset(k) and applyQuickFilter(k) leave preset k at 70, the
\* other presets at 0 and the fields that are no preset as they were;
\* resetFilters leaves each of the 20 fields at its value in defaultFilters.
C28_PresetFrame ==
    [][/\ lastOp'.op \in {"applyPreset", "applyQuickFilter"} =>
              PresetApplied(globalFilters, globalFilters', lastOp'.key)
       /\ lastOp'.op = "resetFilters" =>
              /\ DOMAIN globalFilters' = FieldNames
              /\ Cardinality(FieldNames) = 20
              /\ \A n \in FieldNames : globalFilters'[n] = defaultFilters[n]]_vars

\* applyPreset("cross") has run on a filter set with two sliders moved.
C28_Witness ==
    /\ lastOp.op = "applyPreset"
    /\ lastOp.key = "cross"
    /\ globalFilters["cross"] = 70
    /\ globalFilters["vintage"] = 0
    /\ globalFilters["grayscale"] = 100
    /\ globalFilters["brightness"] = 150

(***************************************************************************)
(* The padding of a formatted image                                        *)
(***************************************************************************)

\* Pixel p of the canvas is padding: it lies outside the image rectangle.
InPadding(p) == ~InImage(p, width, formatted)

\* applyClarify writes pixel p from its eight neighbours, and one of them
\* lies inside the image rectangle.
ClarifyReaches(p) ==
    /\ filters.clarify > 0
    /\ (p % width) >= 1 /\ (p % width) <= width - 2
    /\ (p \div width) >= 1 /\ (p \div width) <= height - 2
    /\ \E dx \in {-1, 0, 1}, dy \in {-1, 0, 1} : InImage(p + dy * width + dx, width, formatted)

\* out and uniform agree on the bytes of the padding pixels.
AgreeOnPadding(out, uniform) ==
    \A k \in DOMAIN out : InPadding(k \div 4) => out[k] = uniform[k]

\* out and uniform agree on the bytes of the padding pixels that applyClarify
\* does not write from a pixel of the image.
AgreeOnPlainPadding(out, uniform) ==
    \A k \in DOMAIN out :
        (InPadding(k \div 4) /\ ~ClarifyReaches(k \div 4)) => out[k] = uniform[k]

\* A canvas of the size of the formatted one with the background colour,
\* opaque, at every pixel.
BackgroundOnly ==
    [k \in 0..(4 * width * height - 1) |->
        IF k % 4 = 3 THEN 255 ELSE formatted.backgroundColor[(k % 4) + 1]]

\* The output of the engine on that canvas.
UniformOutput == Processed(BackgroundOnly, BackgroundOnly, width, height, filters)

====
